---- MODULE Spec2Model ----
(***************************************************************************)
(* Atlas-G Protocol: the governance-gated Thought-Action loop.             *)
(*                                                                         *)
(* backend/governance.py (GovernanceLayer) and backend/agent.py            *)
(* (AtlasAgent.think) as a state machine.  Texts are sequences of tokens:  *)
(* a token is a punctuation mark, white space, or a phrase that one of     *)
(* the validator's patterns looks for.  Time stamps are left out.          *)
(***************************************************************************)
EXTENDS Integers, Sequences, FiniteSets, TLC

(***************************************************************************)
(* Bounds of the model.                                                    *)
(***************************************************************************)
MaxViolations == 2
MaxTextLen == 4
MaxGenSentences == 1
MaxCount == 4

(***************************************************************************)
(* governance.py: ComplianceStatus, QueryType.                             *)
(***************************************************************************)
ComplianceStatus == {"PASS", "WARN", "BLOCK", "PENDING"}

QueryTypeOrder ==
    << "RESUME_DEEP_DIVE", "TECHNICAL_INQUIRY", "PROJECT_AUDIT",
       "EMPLOYMENT_VERIFICATION", "GENERAL_CHAT",
       "TOOL_USE_ATTEMPT", "CODE_EXECUTION_ATTEMPT", "OFF_TOPIC",
       "SECURITY_PROBE", "UNETHICAL_REQUEST" >>

QueryType == { QueryTypeOrder[i] : i \in 1..Len(QueryTypeOrder) }

AgentState == {"IDLE", "THINKING", "ACTING", "RESPONDING", "BLOCKED"}

None == "None"

(***************************************************************************)
(* Sequence helpers.                                                       *)
(***************************************************************************)
Range(s) == { s[i] : i \in 1..Len(s) }

Min(a, b) == IF a < b THEN a ELSE b

Max(a, b) == IF a > b THEN a ELSE b

RECURSIVE Concat(_)
Concat(ss) == IF ss = <<>> THEN <<>> ELSE Head(ss) \o Concat(Tail(ss))

SeqsUpTo(S, n) == UNION { [1..k -> S] : k \in 0..n }

(* F applied to the value of x, with x evaluated once. *)
Bind(x, F(_)) == CHOOSE r \in { F(v) : v \in {x} } : TRUE

(***************************************************************************)
(* Tokens of a generated text.                                             *)
(*   "." "?"    terminal punctuation                                       *)
(*   " "        white space                                                *)
(*   "word"     text that no pattern matches                               *)
(*   "TRAP"     a phrase of HALLUCINATION_TRAP_PATTERNS                    *)
(*   "EMP" "PROJ" "SKILL"  an entry of the knowledge graph                 *)
(*   "ASSERT"   a phrase of assertion_patterns                             *)
(*   "MARKER"   the literal words "Hallucination Trap Triggered"           *)
(*   "CONTACT"  a phrase of the contact-intent list of agent.py:365        *)
(***************************************************************************)
Punct == {".", "?"}

Space == {" "}

Tokens == Punct \cup Space \cup
          {"word", "TRAP", "EMP", "PROJ", "SKILL", "ASSERT", "MARKER"}

TRAP_MARKER == "MARKER"

contact_phrases == {"CONTACT"}

HALLUCINATION_TRAP_PATTERNS == {"TRAP"}

assertion_patterns == {"ASSERT"}

(* _parse_knowledge_graph: the graph built from the resume. *)
knowledge_graph ==
    [employers |-> {"EMP"}, projects |-> {"PROJ"}, skills |-> {"SKILL"}]

Mentions(text, phrases) == Range(text) \cap phrases # {}

(***************************************************************************)
(* governance.py check_actionability: the policy decision.                 *)
(***************************************************************************)
restricted_types == {"TOOL_USE_ATTEMPT", "CODE_EXECUTION_ATTEMPT", "OFF_TOPIC"}

(* A variant of check_actionability that never escalates a repeat. *)
check_actionability_no_escalation(query_type, violation_count) ==
    IF query_type \in {"SECURITY_PROBE", "UNETHICAL_REQUEST"}
    THEN [status |-> "BLOCK", reason |-> <<"Zero tolerance">>]
    ELSE IF query_type \in {"TOOL_USE_ATTEMPT", "CODE_EXECUTION_ATTEMPT", "OFF_TOPIC"}
    THEN [status |-> "WARN", reason |-> <<"Out of Scope:", query_type>>]
    ELSE [status |-> "PASS", reason |-> <<"Authorized Query">>]

(* A variant of check_actionability whose repeat test is off by one. *)
check_actionability_late(query_type, violation_count) ==
    IF query_type \in {"SECURITY_PROBE", "UNETHICAL_REQUEST"}
    THEN [status |-> "BLOCK", reason |-> <<"Zero tolerance">>]
    ELSE IF query_type \in {"TOOL_USE_ATTEMPT", "CODE_EXECUTION_ATTEMPT", "OFF_TOPIC"}
    THEN IF violation_count > 1
         THEN [status |-> "BLOCK", reason |-> <<"Repeated Violation:", query_type>>]
         ELSE [status |-> "WARN", reason |-> <<"Out of Scope:", query_type>>]
    ELSE [status |-> "PASS", reason |-> <<"Authorized Query">>]

(* A variant of check_actionability that locks a session out after a strike. *)
check_actionability_lockout(query_type, violation_count) ==
    IF query_type = "SECURITY_PROBE"
    THEN [status |-> "BLOCK", reason |-> <<"Critical Security Violation">>]
    ELSE IF query_type = "UNETHICAL_REQUEST"
    THEN [status |-> "BLOCK", reason |-> <<"Safety Violation">>]
    ELSE IF violation_count >= 1
    THEN [status |-> "BLOCK", reason |-> <<"Repeated Violation:", query_type>>]
    ELSE IF query_type \in restricted_types
    THEN [status |-> "WARN", reason |-> <<"Out of Scope:", query_type>>]
    ELSE [status |-> "PASS", reason |-> <<"Authorized Query">>]

check_actionability(query_type, violation_count) ==
    IF query_type = "SECURITY_PROBE"
    THEN [status |-> "BLOCK", reason |-> <<"Critical Security Violation">>]
    ELSE IF query_type = "UNETHICAL_REQUEST"
    THEN [status |-> "BLOCK", reason |-> <<"Safety Violation">>]
    ELSE IF query_type \in restricted_types
    THEN IF violation_count >= 1
         THEN [status |-> "BLOCK", reason |-> <<"Repeated Violation:", query_type>>]
         ELSE [status |-> "WARN", reason |-> <<"Out of Scope:", query_type>>]
    ELSE [status |-> "PASS", reason |-> <<"Authorized Query">>]

(***************************************************************************)
(* governance.py validate_claim.                                           *)
(***************************************************************************)
(* A variant of validate_claim that rejects every assertion-style sentence. *)
validate_claim_no_skills(claim) ==
    IF Mentions(claim, HALLUCINATION_TRAP_PATTERNS)
    THEN [valid |-> FALSE, reason |-> "CRITICAL: Hallucination Trap Triggered"]
    ELSE IF Mentions(claim, knowledge_graph.employers)
    THEN [valid |-> TRUE, reason |-> "Verified employer"]
    ELSE IF Mentions(claim, knowledge_graph.projects)
    THEN [valid |-> TRUE, reason |-> "Verified project"]
    ELSE IF Mentions(claim, assertion_patterns)
    THEN [valid |-> FALSE, reason |-> "not verifiable against resume data"]
    ELSE [valid |-> TRUE, reason |-> "General statement - allowed"]

(* A variant of validate_claim that consults the knowledge graph first. *)
validate_claim_graph_first(claim) ==
    IF Mentions(claim, knowledge_graph.employers)
    THEN [valid |-> TRUE, reason |-> "Verified employer"]
    ELSE IF Mentions(claim, knowledge_graph.projects)
    THEN [valid |-> TRUE, reason |-> "Verified project"]
    ELSE IF Mentions(claim, HALLUCINATION_TRAP_PATTERNS)
    THEN [valid |-> FALSE, reason |-> "CRITICAL: Hallucination Trap Triggered"]
    ELSE IF Mentions(claim, assertion_patterns)
    THEN IF Mentions(claim, knowledge_graph.skills)
         THEN [valid |-> TRUE, reason |-> "Claim verified against skills"]
         ELSE [valid |-> FALSE, reason |-> "not verifiable against resume data"]
    ELSE [valid |-> TRUE, reason |-> "General statement - allowed"]

validate_claim(claim) ==
    IF Mentions(claim, HALLUCINATION_TRAP_PATTERNS)
    THEN [valid |-> FALSE, reason |-> "CRITICAL: Hallucination Trap Triggered"]
    ELSE IF Mentions(claim, knowledge_graph.employers)
    THEN [valid |-> TRUE, reason |-> "Verified employer"]
    ELSE IF Mentions(claim, knowledge_graph.projects)
    THEN [valid |-> TRUE, reason |-> "Verified project"]
    ELSE IF Mentions(claim, assertion_patterns)
    THEN IF Mentions(claim, knowledge_graph.skills)
         THEN [valid |-> TRUE, reason |-> "Claim verified against skills"]
         ELSE [valid |-> FALSE, reason |-> "not verifiable against resume data"]
    ELSE [valid |-> TRUE, reason |-> "General statement - allowed"]

(***************************************************************************)
(* governance.py validate_response, lines 390-406: re.split on runs of     *)
(* terminal punctuation with the delimiters kept, then the pieces paired   *)
(* into sentences.                                                         *)
(***************************************************************************)
re_split_step(p, c) ==
    IF (c \in Punct) = p.delim
    THEN [p EXCEPT !.cur = Append(@, c)]
    ELSE [acc |-> Append(p.acc, p.cur), cur |-> <<c>>, delim |-> (c \in Punct)]

re_split(text) ==
    LET F[i \in 0..Len(text)] ==
            IF i = 0
            THEN [acc |-> <<>>, cur |-> <<>>, delim |-> FALSE]
            ELSE Bind(F[i - 1], LAMBDA p : re_split_step(p, text[i]))
    IN  Bind(F[Len(text)],
             LAMBDA last : IF last.delim
                           THEN Append(Append(last.acc, last.cur), <<>>)
                           ELSE Append(last.acc, last.cur))

RECURSIVE lstrip(_)
lstrip(s) == IF s # <<>> /\ Head(s) \in Space THEN lstrip(Tail(s)) ELSE s

RECURSIVE rstrip(_)
rstrip(s) ==
    IF s # <<>> /\ s[Len(s)] \in Space THEN rstrip(SubSeq(s, 1, Len(s) - 1)) ELSE s

strip(s) == rstrip(lstrip(s))

(* The sentences validate_response builds from the text (lines 390-406). *)
pair_sentences(raw_sentences) ==
    LET n == Len(raw_sentences)
        paired == [k \in 1..((n - 1) \div 2) |->
                      raw_sentences[2 * k - 1] \o raw_sentences[2 * k]]
        last_segment == strip(raw_sentences[n])
    IN  IF n % 2 # 0 /\ last_segment # <<>>
        THEN IF last_segment[Len(last_segment)] \in Punct
             THEN Append(paired, last_segment)
             ELSE paired
        ELSE paired

split_sentences(response) == Bind(re_split(response), pair_sentences)

(***************************************************************************)
(* governance.py GovernanceContext and AuditLogEntry.  The details of an   *)
(* entry are a sequence of tokens.                                         *)
(***************************************************************************)
AuditLogEntry(action, status, details) ==
    [action |-> action, status |-> status, details |-> details]

add_log(context, action, status, details) ==
    [context EXCEPT !.audit_log = Append(@, AuditLogEntry(action, status, details))]

GovernanceContext(session_id, query, violation_count) ==
    [session_id |-> session_id, query |-> query,
     violation_count |-> violation_count, query_type |-> "GENERAL_CHAT",
     audit_log |-> <<>>, verified_facts |-> <<>>, blocked_claims |-> <<>>]

(* clean_sentence[:50] of governance.py:422 *)
DetailLimit == 50

Truncate(s) == SubSeq(s, 1, Min(Len(s), DetailLimit))

(* A variant of validate_sentence that also counts a rejected sentence as a fact. *)
validate_sentence_both_lists(acc, sentence) ==
    LET clean_sentence == strip(sentence)
    IN  IF clean_sentence = <<>>
        THEN acc
        ELSE IF validate_claim(clean_sentence).valid
        THEN [acc EXCEPT !.parts = Append(@, sentence),
                         !.context.verified_facts = Append(@, clean_sentence)]
        ELSE [acc EXCEPT
                !.context = add_log(
                    [acc.context EXCEPT !.blocked_claims = Append(@, clean_sentence),
                                        !.verified_facts = Append(@, clean_sentence)],
                    "CLAIM VALIDATION", "BLOCK",
                    <<"Unverified:">> \o Truncate(clean_sentence))]

(* A variant of validate_sentence that keeps the stripped sentence. *)
validate_sentence_stripped(acc, sentence) ==
    LET clean_sentence == strip(sentence)
    IN  IF clean_sentence = <<>>
        THEN acc
        ELSE IF validate_claim(clean_sentence).valid
        THEN [acc EXCEPT !.parts = Append(@, clean_sentence),
                         !.context.verified_facts = Append(@, clean_sentence)]
        ELSE [acc EXCEPT
                !.context = add_log(
                    [acc.context EXCEPT !.blocked_claims = Append(@, clean_sentence)],
                    "CLAIM VALIDATION", "BLOCK",
                    <<"Unverified:">> \o Truncate(clean_sentence))]

(***************************************************************************)
(* governance.py validate_response, lines 408-432.  acc.parts is           *)
(* validated_parts.                                                        *)
(***************************************************************************)
validate_sentence(acc, sentence) ==
    LET clean_sentence == strip(sentence)
    IN  IF clean_sentence = <<>>
        THEN acc
        ELSE IF validate_claim(clean_sentence).valid
        THEN [acc EXCEPT !.parts = Append(@, sentence),
                         !.context.verified_facts = Append(@, clean_sentence)]
        ELSE [acc EXCEPT
                !.context = add_log(
                    [acc.context EXCEPT !.blocked_claims = Append(@, clean_sentence)],
                    "CLAIM VALIDATION", "BLOCK",
                    <<"Unverified:">> \o Truncate(clean_sentence))]

validate_sentences(sentences, context) ==
    LET Loop[i \in 0..Len(sentences)] ==
            IF i = 0
            THEN [parts |-> <<>>, context |-> context]
            ELSE Bind(Loop[i - 1], LAMBDA acc : validate_sentence(acc, sentences[i]))
    IN  Loop[Len(sentences)]

validate_summary(done) ==
    [validated_response |-> strip(Concat(done.parts)),
     context |->
        IF done.context.blocked_claims # <<>>
        THEN add_log(done.context, "GOVERNANCE LAYER", "WARN", <<"claims filtered">>)
        ELSE add_log(done.context, "GOVERNANCE LAYER", "PASS", <<"ALL CLAIMS VERIFIED">>)]

validate_response(response, context) ==
    Bind(split_sentences(response),
         LAMBDA sentences :
            Bind(validate_sentences(sentences, context), validate_summary))

(***************************************************************************)
(* A query is the set of the features of its text that the code looks at:  *)
(*   "jailbreak" "credential" "codeexec"  a match of JAILBREAK_PATTERNS,   *)
(*        CREDENTIAL_PROBE_PATTERNS, CODE_EXECUTION_PATTERNS               *)
(*   "pii"         a match of PII_PATTERNS                                 *)
(*   "submission"  the marker [CONTACT FORM SUBMISSION]                    *)
(*   "health" "fintech" "legal"  a keyword of the domain lists             *)
(***************************************************************************)
Queries ==
    { {}, {"jailbreak"}, {"credential"}, {"codeexec"}, {"jailbreak", "codeexec"},
      {"pii"}, {"submission"}, {"health"}, {"fintech", "legal"} }

(* A variant of check_heuristic_threats without the credential-probe loop. *)
check_heuristic_threats_no_credential(query) ==
    IF "jailbreak" \in query THEN "SECURITY_PROBE"
    ELSE IF "codeexec" \in query THEN "CODE_EXECUTION_ATTEMPT"
    ELSE None

(* A variant of check_heuristic_threats that scans for code execution first. *)
check_heuristic_threats_code_first(query) ==
    IF "codeexec" \in query THEN "CODE_EXECUTION_ATTEMPT"
    ELSE IF "jailbreak" \in query THEN "SECURITY_PROBE"
    ELSE IF "credential" \in query THEN "SECURITY_PROBE"
    ELSE None

(* governance.py _check_heuristic_threats *)
check_heuristic_threats(query) ==
    IF "jailbreak" \in query THEN "SECURITY_PROBE"
    ELSE IF "credential" \in query THEN "SECURITY_PROBE"
    ELSE IF "codeexec" \in query THEN "CODE_EXECUTION_ATTEMPT"
    ELSE None

(***************************************************************************)
(* What the classifier call gives: it raises, or returns an empty text,    *)
(* or a text in which the names of `names` occur.                          *)
(***************************************************************************)
LLMOutcomes ==
    { [kind |-> "raise", names |-> {}], [kind |-> "empty", names |-> {}],
      [kind |-> "text", names |-> {}],
      [kind |-> "text", names |-> {"GENERAL_CHAT", "OFF_TOPIC"}] }
    \cup { [kind |-> "text", names |-> {c}] : c \in QueryType }

NoLLM == [kind |-> "none", names |-> {}]

(* No submission in the turn: capture and send_lead_alert are not called. *)
NoSide == [capture |-> "none", email_sent |-> FALSE]

(* A variant of parse_classification that passes on a text it cannot map. *)
parse_classification_passthrough(llm) ==
    IF llm.kind = "raise" THEN "RESUME_DEEP_DIVE"
    ELSE IF llm.kind = "empty" THEN "RESUME_DEEP_DIVE"
    ELSE IF llm.names # {}
    THEN QueryTypeOrder[CHOOSE i \in 1..Len(QueryTypeOrder) :
            /\ QueryTypeOrder[i] \in llm.names
            /\ \A j \in 1..(i - 1) : QueryTypeOrder[j] \notin llm.names]
    ELSE "raw_text"

(* A variant of parse_classification that fails closed. *)
parse_classification_fail_closed(llm) ==
    IF llm.kind = "raise" THEN "OFF_TOPIC"
    ELSE IF llm.kind = "empty" THEN "OFF_TOPIC"
    ELSE IF llm.names # {}
    THEN QueryTypeOrder[CHOOSE i \in 1..Len(QueryTypeOrder) :
            /\ QueryTypeOrder[i] \in llm.names
            /\ \A j \in 1..(i - 1) : QueryTypeOrder[j] \notin llm.names]
    ELSE "OFF_TOPIC"

(* governance.py classify_query, lines 249-290, after the heuristics.  A   *)
(* text without a category name reaches QueryType(raw), a NameError that   *)
(* the except clause of line 287 turns into RESUME_DEEP_DIVE.              *)
parse_classification(llm) ==
    IF llm.kind = "raise" THEN "RESUME_DEEP_DIVE"
    ELSE IF llm.kind = "empty" THEN "RESUME_DEEP_DIVE"
    ELSE IF llm.names # {}
    THEN QueryTypeOrder[CHOOSE i \in 1..Len(QueryTypeOrder) :
            /\ QueryTypeOrder[i] \in llm.names
            /\ \A j \in 1..(i - 1) : QueryTypeOrder[j] \notin llm.names]
    ELSE "RESUME_DEEP_DIVE"

classify_query(query, llm) ==
    LET heuristic_result == check_heuristic_threats(query)
    IN  IF heuristic_result # None THEN heuristic_result
        ELSE parse_classification(llm)

(* governance.py check_pii *)
check_pii(query) == "pii" \in query

(* governance.py run_compliance_check: the context after its body has run. *)
run_compliance_check(context, llm) ==
    LET c1 == add_log(context, "IDENTIFYING INTENT", "PENDING",
                      <<"Running Semantic Analysis...">>)
        qt == classify_query(context.query, llm)
        c2 == add_log([c1 EXCEPT !.query_type = qt], "INTENT IDENTIFIED", "PASS",
                      <<"Category:", qt>>)
        policy == check_actionability(c2.query_type, c2.violation_count)
    IN  IF policy.status = "BLOCK"
        THEN add_log(c2, "POLICY ENFORCEMENT", "BLOCK", policy.reason)
        ELSE IF policy.status = "WARN"
        THEN add_log(c2, "POLICY ENFORCEMENT", "WARN", policy.reason)
        ELSE LET c3 == IF check_pii(c2.query)
                       THEN add_log(c2, "PII SCAN", "WARN", <<"POTENTIAL PII DETECTED">>)
                       ELSE c2
             IN  add_log(c3, "ACCESS GRANTED", "PASS",
                         <<"Retrieving verified context...">>)

(* A variant of compliance_result that looks for an action label no entry carries. *)
compliance_result_wrong_label(audit_log) ==
    IF \E i \in 1..Len(audit_log) : audit_log[i].action = "POLICY"
    THEN "BLOCK"
    ELSE "PASS"

(* A variant of compliance_result that takes the first WARN or BLOCK entry of any layer. *)
compliance_result_any_entry(audit_log) ==
    IF \E i \in 1..Len(audit_log) : audit_log[i].status \in {"WARN", "BLOCK"}
    THEN audit_log[CHOOSE i \in 1..Len(audit_log) :
            /\ audit_log[i].status \in {"WARN", "BLOCK"}
            /\ \A j \in 1..(i - 1) : audit_log[j].status \notin {"WARN", "BLOCK"}].status
    ELSE "PASS"

(* agent.py think, lines 215-220 *)
compliance_result(audit_log) ==
    IF \E i \in 1..Len(audit_log) : audit_log[i].action = "POLICY ENFORCEMENT"
    THEN audit_log[CHOOSE i \in 1..Len(audit_log) :
            /\ audit_log[i].action = "POLICY ENFORCEMENT"
            /\ \A j \in 1..(i - 1) : audit_log[j].action # "POLICY ENFORCEMENT"].status
    ELSE "PASS"

(***************************************************************************)
(* The state.                                                              *)
(*   sessions   AtlasAgent.sessions: session id -> AgentSession            *)
(*   store      the Firestore collection: session id -> saved snapshot     *)
(* A turn is one run of the async generator AtlasAgent.think; per turn:    *)
(*   pc             where the generator is suspended                       *)
(*   tsid           the session the turn runs on                           *)
(*   gctx           its GovernanceContext                                  *)
(*   events         the events it has yielded, in order                    *)
(*   pending        the events the code it is in yields next, no await     *)
(*                  or read of the session lying between them              *)
(*   full_response  the text handed to validate_response                   *)
(*   outcome        the exit path taken                                    *)
(*   llm_result  what the classifier call of the turn gave                 *)
(*   side_effects  what capture and send_lead_alert did in the turn        *)
(*   llmCalls, genCalls, valRuns  calls of the classifier, of the          *)
(*                  generation capability and of validate_response         *)
(*   saved          the snapshots it passed to save_session                *)
(* fin, fout: the input and the result of a function applied on its own.   *)
(***************************************************************************)
VARIABLES sessions, store, pc, tsid, gctx, events, pending, full_response,
          outcome, llmCalls, llm_result, side_effects, genCalls, valRuns, saved, fin, fout

vars == <<sessions, store, pc, tsid, gctx, events, pending, full_response,
          outcome, llmCalls, llm_result, side_effects, genCalls, valRuns, saved, fin, fout>>

turnVars == <<pc, tsid, gctx, events, pending, full_response,
              outcome, llmCalls, llm_result, side_effects, genCalls, valRuns, saved>>

pureVars == <<fin, fout>>

SessionIds == {"s1", "s2"}

Turns == {"t1", "t2"}

(* agent.py AgentSession, as create_session builds it *)
AgentSession ==
    [state |-> "IDLE", context_domain |-> None, violation_count |-> 0,
     created_at |-> "utcnow", thought_chain |-> <<>>]

(* agent.py ThoughtStep, and the dict to_dict makes of one (lines 64-70) *)
ThoughtStep(t) ==
    [thought |-> t.thought, action |-> t.action, action_input |-> t.action_input,
     observation |-> t.observation, timestamp |-> t.timestamp]

(* persistence.py load_session: the document, or None when there is none   *)
(* or when the read fails.  NoDocument stands for None; get_session tests  *)
(* the result for truth, which an empty document fails as well.            *)
NoDocument == <<>>

(* agent.py AgentSession.to_dict *)
to_dict(sid, session) ==
    [session_id |-> sid, state |-> session.state,
     context_domain |-> session.context_domain,
     violation_count |-> session.violation_count,
     created_at |-> session.created_at,
     thought_chain |-> [i \in 1..Len(session.thought_chain) |->
                          ThoughtStep(session.thought_chain[i])]]

(* persistence.py save_session: doc_ref.set(session_data, merge=True); a    *)
(* failure is caught and printed.                                          *)
save_session(st, sid, session_data, ok) ==
    IF ~ok THEN st
    ELSE IF sid \in DOMAIN st
    THEN [st EXCEPT ![sid] =
            [f \in DOMAIN @ \cup DOMAIN session_data |->
                IF f \in DOMAIN session_data THEN session_data[f] ELSE @[f]]]
    ELSE st @@ (sid :> session_data)

AuditEvent(entry) == [type |-> "audit", data |-> entry]

ResponseEvent(data) == [type |-> "response", data |-> data]

ErrorEvent == [type |-> "error", data |-> [message |-> "Agent error", recoverable |-> TRUE]]

(* governance.py generate_security_alert_response *)
generate_security_alert_response == <<"[CRITICAL SECURITY ALERT]">>

(* governance.py generate_refusal_response *)
generate_refusal_response(query_type) ==
    IF query_type = "TOOL_USE_ATTEMPT" THEN <<"I cannot browse the web">>
    ELSE IF query_type = "CODE_EXECUTION_ATTEMPT" THEN <<"I cannot execute code">>
    ELSE IF query_type = "UNETHICAL_REQUEST" THEN <<"I cannot engage">>
    ELSE <<"That query is outside my defined scope">>

(* agent.py:385 *)
trap_alert == <<"SECURITY ALERT: Deviation from verified resume facts detected">>

(* agent.py:351 and agent.py:358, as token texts: the acknowledgment has   *)
(* plain sentences; the apology also breaks at the dots of the address.    *)
ACK == <<"word", ".", " ", "word", ".">>

APOLOGY == <<"word", ".", " ", "CONTACT", ".", "word", ".", "word", ".">>

NoInput ==
    [op |-> "none", cat |-> "GENERAL_CHAT", count |-> 0, text |-> <<>>, query |-> {},
     session_id |-> None, session |-> AgentSession]

NoContext == GovernanceContext(None, {}, 0)

NoOutput ==
    [done |-> FALSE,
     category |-> "GENERAL_CHAT",
     document |-> NoDocument,
     loaded |-> AgentSession,
     policy |-> [status |-> "PENDING", reason |-> <<>>],
     validation |-> [validated_response |-> <<>>, context |-> NoContext]]

TurnInit ==
    /\ sessions = <<>>
    /\ store = <<>>
    /\ pc = [t \in Turns |-> "idle"]
    /\ tsid = [t \in Turns |-> None]
    /\ gctx = [t \in Turns |-> NoContext]
    /\ events = [t \in Turns |-> <<>>]
    /\ pending = [t \in Turns |-> <<>>]
    /\ full_response = [t \in Turns |-> <<>>]
    /\ outcome = [t \in Turns |-> "none"]
    /\ llmCalls = [t \in Turns |-> 0]
    /\ llm_result = [t \in Turns |-> NoLLM]
    /\ side_effects = [t \in Turns |-> NoSide]
    /\ genCalls = [t \in Turns |-> 0]
    /\ valRuns = [t \in Turns |-> 0]
    /\ saved = [t \in Turns |-> <<>>]

Init ==
    /\ TurnInit
    /\ fin = NoInput
    /\ fout = NoOutput

(* agent.py create_session: sid stands for the fresh uuid. *)
create_session(sid) ==
    /\ sid \notin DOMAIN sessions
    /\ sid \notin DOMAIN store
    /\ sessions' = sessions @@ (sid :> AgentSession)
    /\ UNCHANGED <<store, turnVars, pureVars>>

(***************************************************************************)
(* agent.py AtlasAgent.think.  Each action runs the generator from where   *)
(* it is suspended to its next yield, await or return.                     *)
(*                                                                         *)
(* Line 213 awaits run_compliance_check, which governance.py writes with   *)
(* yield statements, and lines 215-227 read the context that call filled:  *)
(* the model takes the context after the whole body of                     *)
(* run_compliance_check has run.  As written, run_compliance_check is an   *)
(* async generator, and CPython raises TypeError when line 213 awaits one, *)
(* before the first event of the turn; the model does not follow that      *)
(* exception but the flow that lines 215-464 are written for.              *)
(***************************************************************************)

(* Lines 213-227, from the return of the classifier to the first yield of  *)
(* the audit loop; the other entries of the loop are pending.              *)
AfterCompliance(t, checked) ==
    \E context \in {checked} :
        LET audits == [i \in 1..Len(context.audit_log) |->
                          AuditEvent(context.audit_log[i])]
        IN  /\ gctx' = [gctx EXCEPT ![t] = context]
            /\ events' = [events EXCEPT ![t] = <<Head(audits)>>]
            /\ pending' = [pending EXCEPT ![t] = Tail(audits)]
            /\ pc' = [pc EXCEPT ![t] = "audit_loop"]

(* Lines 202-213.  With a heuristic hit classify_query returns without     *)
(* suspending, so the turn runs on to the first yield.                     *)
BeginTurn(known, t, sid, query) ==
    /\ pc[t] \in {"idle", "done"}
    /\ sid \in DOMAIN known
    /\ known[sid].violation_count < MaxViolations
    /\ sessions' = [known EXCEPT ![sid].state = "THINKING"]
    /\ tsid' = [tsid EXCEPT ![t] = sid]
    /\ LET context == GovernanceContext(sid, query, known[sid].violation_count)
       IN  IF check_heuristic_threats(query) # None
           THEN /\ AfterCompliance(t, run_compliance_check(context, NoLLM))
                /\ llmCalls' = [llmCalls EXCEPT ![t] = 0]
                /\ llm_result' = [llm_result EXCEPT ![t] = NoLLM]
           ELSE /\ gctx' = [gctx EXCEPT ![t] = context]
                /\ events' = [events EXCEPT ![t] = <<>>]
                /\ pending' = [pending EXCEPT ![t] = <<>>]
                /\ pc' = [pc EXCEPT ![t] = "classify"]
                /\ llmCalls' = [llmCalls EXCEPT ![t] = 1]
                /\ llm_result' = [llm_result EXCEPT ![t] = NoLLM]
    /\ full_response' = [full_response EXCEPT ![t] = <<>>]
    /\ outcome' = [outcome EXCEPT ![t] = "none"]
    /\ side_effects' = [side_effects EXCEPT ![t] = NoSide]
    /\ genCalls' = [genCalls EXCEPT ![t] = 0]
    /\ valRuns' = [valRuns EXCEPT ![t] = 0]
    /\ saved' = [saved EXCEPT ![t] = <<>>]
    /\ UNCHANGED store

(* think, lines 193-213, on a session of the agent's dict. *)
StartTurn(t, sid, query) ==
    /\ BeginTurn(sessions, t, sid, query)
    /\ UNCHANGED pureVars

(* governance.py:250 returns or raises; the turn runs on to the first yield. *)
ClassifierReturns(t, llm) ==
    /\ pc[t] = "classify"
    /\ AfterCompliance(t, run_compliance_check(gctx[t], llm))
    /\ llm_result' = [llm_result EXCEPT ![t] = llm]
    /\ UNCHANGED <<sessions, store, tsid, full_response, outcome, llmCalls, side_effects,
                   genCalls, valRuns, saved, pureVars>>

(* The next yield of a run of yields: the audit loop of lines 223-227, or  *)
(* the yields of lines 402-450.                                            *)
EmitNext(t) ==
    /\ pc[t] \in {"audit_loop", "in_try"}
    /\ pending[t] # <<>>
    /\ events' = [events EXCEPT ![t] = Append(@, Head(pending[t]))]
    /\ pending' = [pending EXCEPT ![t] = Tail(@)]
    /\ UNCHANGED <<sessions, store, pc, tsid, gctx, full_response, outcome,
                   llmCalls, llm_result, side_effects, genCalls, valRuns, saved, pureVars>>

(* A variant of PolicyBlock that leaves the session IDLE. *)
PolicyBlock_idle(t) ==
    /\ pc[t] = "audit_loop"
    /\ pending[t] = <<>>
    /\ compliance_result(gctx[t].audit_log) = "BLOCK"
    /\ sessions' = [sessions EXCEPT ![tsid[t]].state = "IDLE",
                                    ![tsid[t]].violation_count = @ + 1]
    /\ events' = [events EXCEPT ![t] = Append(@, ResponseEvent(
                    [content |-> generate_security_alert_response,
                     blocked |-> TRUE,
                     violation_count |-> sessions[tsid[t]].violation_count + 1]))]
    /\ outcome' = [outcome EXCEPT ![t] = "block"]
    /\ pc' = [pc EXCEPT ![t] = "early_return"]
    /\ UNCHANGED <<store, tsid, gctx, pending, full_response, llmCalls, llm_result, side_effects,
                   genCalls, valRuns, saved, pureVars>>

(* A variant of PolicyBlock that keeps one strike counter for the agent. *)
PolicyBlock_shared_count(t) ==
    /\ pc[t] = "audit_loop"
    /\ pending[t] = <<>>
    /\ compliance_result(gctx[t].audit_log) = "BLOCK"
    /\ sessions' = [sid \in DOMAIN sessions |->
                      IF sid = tsid[t]
                      THEN [sessions[sid] EXCEPT !.state = "BLOCKED",
                                                 !.violation_count = @ + 1]
                      ELSE [sessions[sid] EXCEPT !.violation_count = @ + 1]]
    /\ events' = [events EXCEPT ![t] = Append(@, ResponseEvent(
                    [content |-> generate_security_alert_response,
                     blocked |-> TRUE,
                     violation_count |-> sessions[tsid[t]].violation_count + 1]))]
    /\ outcome' = [outcome EXCEPT ![t] = "block"]
    /\ pc' = [pc EXCEPT ![t] = "early_return"]
    /\ UNCHANGED <<store, tsid, gctx, pending, full_response, llmCalls, llm_result, side_effects,
                   genCalls, valRuns, saved, pureVars>>

(* Lines 229-241 *)
PolicyBlock(t) ==
    /\ pc[t] = "audit_loop"
    /\ pending[t] = <<>>
    /\ compliance_result(gctx[t].audit_log) = "BLOCK"
    /\ sessions' = [sessions EXCEPT ![tsid[t]].state = "BLOCKED",
                                    ![tsid[t]].violation_count = @ + 1]
    /\ events' = [events EXCEPT ![t] = Append(@, ResponseEvent(
                    [content |-> generate_security_alert_response,
                     blocked |-> TRUE,
                     violation_count |-> sessions[tsid[t]].violation_count + 1]))]
    /\ outcome' = [outcome EXCEPT ![t] = "block"]
    /\ pc' = [pc EXCEPT ![t] = "early_return"]
    /\ UNCHANGED <<store, tsid, gctx, pending, full_response, llmCalls, llm_result, side_effects,
                   genCalls, valRuns, saved, pureVars>>

(* A variant of PolicyWarn that reports the count before the strike. *)
PolicyWarn_stale_count(t) ==
    /\ pc[t] = "audit_loop"
    /\ pending[t] = <<>>
    /\ compliance_result(gctx[t].audit_log) = "WARN"
    /\ sessions' = [sessions EXCEPT ![tsid[t]].state = "IDLE",
                                    ![tsid[t]].violation_count = @ + 1]
    /\ events' = [events EXCEPT ![t] = Append(@, ResponseEvent(
                    [content |-> generate_refusal_response(gctx[t].query_type),
                     blocked |-> FALSE,
                     violation_count |-> sessions[tsid[t]].violation_count]))]
    /\ outcome' = [outcome EXCEPT ![t] = "warn"]
    /\ pc' = [pc EXCEPT ![t] = "early_return"]
    /\ UNCHANGED <<store, tsid, gctx, pending, full_response, llmCalls, llm_result, side_effects,
                   genCalls, valRuns, saved, pureVars>>

(* Lines 243-255 *)
(* A variant of PolicyWarn that writes the strike from the turn's snapshot. *)
PolicyWarn_from_snapshot(t) ==
    /\ pc[t] = "audit_loop"
    /\ pending[t] = <<>>
    /\ compliance_result(gctx[t].audit_log) = "WARN"
    /\ sessions' = [sessions EXCEPT ![tsid[t]].state = "IDLE",
                                    ![tsid[t]].violation_count =
                                        gctx[t].violation_count + 1]
    /\ events' = [events EXCEPT ![t] = Append(@, ResponseEvent(
                    [content |-> generate_refusal_response(gctx[t].query_type),
                     blocked |-> FALSE,
                     violation_count |-> sessions[tsid[t]].violation_count + 1]))]
    /\ outcome' = [outcome EXCEPT ![t] = "warn"]
    /\ pc' = [pc EXCEPT ![t] = "early_return"]
    /\ UNCHANGED <<store, tsid, gctx, pending, full_response, llmCalls, llm_result, side_effects,
                   genCalls, valRuns, saved, pureVars>>

PolicyWarn(t) ==
    /\ pc[t] = "audit_loop"
    /\ pending[t] = <<>>
    /\ compliance_result(gctx[t].audit_log) = "WARN"
    /\ sessions' = [sessions EXCEPT ![tsid[t]].state = "IDLE",
                                    ![tsid[t]].violation_count = @ + 1]
    /\ events' = [events EXCEPT ![t] = Append(@, ResponseEvent(
                    [content |-> generate_refusal_response(gctx[t].query_type),
                     blocked |-> FALSE,
                     violation_count |-> sessions[tsid[t]].violation_count + 1]))]
    /\ outcome' = [outcome EXCEPT ![t] = "warn"]
    /\ pc' = [pc EXCEPT ![t] = "early_return"]
    /\ UNCHANGED <<store, tsid, gctx, pending, full_response, llmCalls, llm_result, side_effects,
                   genCalls, valRuns, saved, pureVars>>

(* The return of line 241 or 255: the generator ends, outside the try. *)
ReturnEarly(t) ==
    /\ pc[t] = "early_return"
    /\ pc' = [pc EXCEPT ![t] = "done"]
    /\ UNCHANGED <<sessions, store, tsid, gctx, events, pending, full_response,
                   outcome, llmCalls, llm_result, side_effects, genCalls, valRuns, saved, pureVars>>

(* A variant of domain_scoping that scopes each turn afresh. *)
domain_scoping_per_turn(context_domain, query_type, query) ==
    IF query_type \in {"RESUME_DEEP_DIVE", "TECHNICAL_INQUIRY"}
    THEN IF "health" \in query THEN "Healthcare"
         ELSE IF "fintech" \in query THEN "FinTech"
         ELSE IF "legal" \in query THEN "LegalTech"
         ELSE None
    ELSE context_domain

(* Lines 257-266 *)
domain_scoping(context_domain, query_type, query) ==
    IF query_type \in {"RESUME_DEEP_DIVE", "TECHNICAL_INQUIRY"}
    THEN IF "health" \in query THEN "Healthcare"
         ELSE IF "fintech" \in query THEN "FinTech"
         ELSE IF "legal" \in query THEN "LegalTech"
         ELSE context_domain
    ELSE context_domain

(* Lines 257-279, to the yield of the GENERATING RESPONSE entry. *)
PolicyPass(t) ==
    /\ pc[t] = "audit_loop"
    /\ pending[t] = <<>>
    /\ compliance_result(gctx[t].audit_log) \notin {"BLOCK", "WARN"}
    /\ sessions' = [sessions EXCEPT
            ![tsid[t]].context_domain =
                domain_scoping(@, gctx[t].query_type, gctx[t].query),
            ![tsid[t]].state = "ACTING"]
    /\ events' = [events EXCEPT ![t] = Append(@, AuditEvent(
                    AuditLogEntry("GENERATING RESPONSE", "PENDING", <<"Consulting Gemini">>)))]
    /\ pc' = [pc EXCEPT ![t] = "gen_audit"]
    /\ UNCHANGED <<store, tsid, gctx, pending, full_response, outcome,
                   llmCalls, llm_result, side_effects, genCalls, valRuns, saved, pureVars>>

(* Lines 290-302: into the try, to the await of generate_content. *)
BeginGeneration(t) ==
    /\ pc[t] = "gen_audit"
    /\ sessions' = [sessions EXCEPT ![tsid[t]].state = "RESPONDING"]
    /\ genCalls' = [genCalls EXCEPT ![t] = @ + 1]
    /\ pc' = [pc EXCEPT ![t] = "generating"]
    /\ UNCHANGED <<store, tsid, gctx, events, pending, full_response, outcome,
                   llmCalls, llm_result, side_effects, valRuns, saved, pureVars>>

(* A variant of GenerationFails that counts the failure as a strike. *)
GenerationFails_strike(t) ==
    /\ pc[t] = "generating"
    /\ sessions' = [sessions EXCEPT ![tsid[t]].violation_count = @ + 1]
    /\ events' = [events EXCEPT ![t] = Append(@, ErrorEvent)]
    /\ outcome' = [outcome EXCEPT ![t] = "generror"]
    /\ pc' = [pc EXCEPT ![t] = "in_try"]
    /\ UNCHANGED <<store, tsid, gctx, pending, full_response,
                   llmCalls, llm_result, side_effects, genCalls, valRuns, saved, pureVars>>

(* generate_content raises: lines 452-459, to the yield of the error event. *)
GenerationFails(t) ==
    /\ pc[t] = "generating"
    /\ events' = [events EXCEPT ![t] = Append(@, ErrorEvent)]
    /\ outcome' = [outcome EXCEPT ![t] = "generror"]
    /\ pc' = [pc EXCEPT ![t] = "in_try"]
    /\ UNCHANGED <<sessions, store, tsid, gctx, pending, full_response,
                   llmCalls, llm_result, side_effects, genCalls, valRuns, saved, pureVars>>

(***************************************************************************)
(* The texts generate_content returns: up to MaxGenSentences sentences,    *)
(* then perhaps a fragment without terminal punctuation.                   *)
(***************************************************************************)
GenUnits ==
    { <<"word", ".">>, <<"ASSERT", ".">>, <<"TRAP", ".">>,
      <<"TRAP", "MARKER", ".">>, <<"CONTACT", ".">> }

GenTexts ==
    { Concat(us) \o frag :
        us \in SeqsUpTo(GenUnits, MaxGenSentences), frag \in {<<>>, <<"word">>} }

(* What capture and send_lead_alert do on a structured submission. *)
SideOutcomes ==
    { [capture |-> "ok", email_sent |-> TRUE],
      [capture |-> "ok", email_sent |-> FALSE],
      [capture |-> "raise", email_sent |-> FALSE] }


vetting_types ==
    {"RESUME_DEEP_DIVE", "TECHNICAL_INQUIRY", "PROJECT_AUDIT", "EMPLOYMENT_VERIFICATION"}

(* A variant of decayed_count that rewards a turn of any category. *)
decayed_count_any_category(query_type, count) ==
    IF count > 0 THEN Max(0, count - 1) ELSE count

(* A variant of decayed_count without the tests that keep the count at 0. *)
decayed_count_unfloored(query_type, count) ==
    IF query_type \in vetting_types THEN count - 1 ELSE count

(* A variant of decayed_count without the reward. *)
decayed_count_never(query_type, count) == count

(* Lines 393-400: the count after the decay of a turn that was not trapped. *)
decayed_count(query_type, count) ==
    IF query_type \in vetting_types /\ count > 0
    THEN Max(0, count - 1)
    ELSE count

(* agent.py:377 *)
is_trap(audit_log) ==
    \E i \in 1..Len(audit_log) : TRAP_MARKER \in Range(audit_log[i].details)

(* agent.py:443, validated_response or full_response *)
response_content(validated_response, full) ==
    IF validated_response # <<>> THEN validated_response ELSE full

(* agent.py:413, audit_log[-2:] *)
last_two(audit_log) == SubSeq(audit_log, Max(1, Len(audit_log) - 1), Len(audit_log))

(* A variant of final_events that yields RESPONSE COMPLETE after the response. *)
final_events_late_audit(context, validated_response, full, lead_captured, contact_requested, session_terminated) ==
    Bind(last_two(context.audit_log),
         LAMBDA entries : [i \in 1..Len(entries) |-> AuditEvent(entries[i])])
    \o (IF lead_captured
        THEN <<AuditEvent(AuditLogEntry("LEAD CAPTURED", "PASS", <<"Lead persisted">>))>>
        ELSE <<>>)
    \o << ResponseEvent(
            [content |-> response_content(validated_response, full),
             blocked |-> FALSE,
             facts_verified |-> Len(context.verified_facts),
             claims_filtered |-> Len(context.blocked_claims),
             contact_requested |-> contact_requested,
             session_terminated |-> session_terminated]),
       AuditEvent(AuditLogEntry("RESPONSE COMPLETE", "PASS", <<"Verified facts">>)) >>

(* Lines 412-450: the events of a turn that was not trapped, after the     *)
(* decay entry.                                                            *)
final_events(context, validated_response, full, lead_captured, contact_requested, session_terminated) ==
    Bind(last_two(context.audit_log),
         LAMBDA entries : [i \in 1..Len(entries) |-> AuditEvent(entries[i])])
    \o (IF lead_captured
        THEN <<AuditEvent(AuditLogEntry("LEAD CAPTURED", "PASS", <<"Lead persisted">>))>>
        ELSE <<>>)
    \o << AuditEvent(AuditLogEntry("RESPONSE COMPLETE", "PASS", <<"Verified facts">>)),
          ResponseEvent(
            [content |-> response_content(validated_response, full),
             blocked |-> FALSE,
             facts_verified |-> Len(context.verified_facts),
             claims_filtered |-> Len(context.blocked_claims),
             contact_requested |-> contact_requested,
             session_terminated |-> session_terminated]) >>

(* Lines 376-450, after validate_response: the trap check, the decay and  *)
(* the events the turn yields from there.                                  *)
AfterValidation(t, v, full, lead_captured, contact_requested, session_terminated) ==
    LET sid == tsid[t]
        count == sessions[sid].violation_count
        trapped == is_trap(v.context.audit_log)
        decays == v.context.query_type \in vetting_types /\ count > 0
        outq ==
           IF trapped
           THEN << ResponseEvent([content |-> trap_alert, blocked |-> TRUE,
                                  violation_count |-> count + 2]) >>
           ELSE (IF decays
                 THEN <<AuditEvent(AuditLogEntry("GOVERNANCE DECAY", "PASS",
                                                 <<"Compliance score improved">>))>>
                 ELSE <<>>)
                \o final_events(v.context, v.validated_response, full,
                                lead_captured, contact_requested, session_terminated)
    IN  /\ gctx' = [gctx EXCEPT ![t] = v.context]
        /\ sessions' =
             IF trapped
             THEN [sessions EXCEPT ![sid].state = "BLOCKED",
                                   ![sid].violation_count = count + 2]
             ELSE [sessions EXCEPT ![sid].violation_count =
                      decayed_count(v.context.query_type, count)]
        /\ outcome' = [outcome EXCEPT ![t] = IF trapped THEN "trap" ELSE "ok"]
        /\ events' = [events EXCEPT ![t] = Append(@, Head(outq))]
        /\ pending' = [pending EXCEPT ![t] = Tail(outq)]

(* generate_content returns `text`: lines 304-410, to the first yield. *)
(* A variant of GenerationReturns that looks for contact intent in every text. *)
GenerationReturns_contact_always(t, text, side) ==
    /\ pc[t] = "generating"
    /\ side \in (IF "submission" \in gctx[t].query THEN SideOutcomes ELSE {NoSide})
    /\ LET is_submission == "submission" \in gctx[t].query
           lead_captured == is_submission /\ side.capture = "ok"
           full == IF is_submission
                   THEN IF side.capture = "ok" THEN ACK ELSE APOLOGY
                   ELSE text
           session_terminated == lead_captured
           contact_requested == Mentions(full, contact_phrases)
       IN  /\ full_response' = [full_response EXCEPT ![t] = full]
           /\ \E v \in {validate_response(full, gctx[t])} :
                 AfterValidation(t, v, full, lead_captured, contact_requested,
                                 session_terminated)
    /\ valRuns' = [valRuns EXCEPT ![t] = @ + 1]
    /\ pc' = [pc EXCEPT ![t] = "in_try"]
    /\ side_effects' = [side_effects EXCEPT ![t] = side]
    /\ UNCHANGED <<store, tsid, llmCalls, llm_result, genCalls, saved, pureVars>>

GenerationReturns(t, text, side) ==
    /\ pc[t] = "generating"
    /\ side \in (IF "submission" \in gctx[t].query THEN SideOutcomes ELSE {NoSide})
    /\ LET is_submission == "submission" \in gctx[t].query
           lead_captured == is_submission /\ side.capture = "ok"
           full == IF is_submission
                   THEN IF side.capture = "ok" THEN ACK ELSE APOLOGY
                   ELSE text
           session_terminated == lead_captured
           contact_requested == ~is_submission /\ Mentions(full, contact_phrases)
       IN  /\ full_response' = [full_response EXCEPT ![t] = full]
           /\ \E v \in {validate_response(full, gctx[t])} :
                 AfterValidation(t, v, full, lead_captured, contact_requested,
                                 session_terminated)
    /\ valRuns' = [valRuns EXCEPT ![t] = @ + 1]
    /\ pc' = [pc EXCEPT ![t] = "in_try"]
    /\ side_effects' = [side_effects EXCEPT ![t] = side]
    /\ UNCHANGED <<store, tsid, llmCalls, llm_result, genCalls, saved, pureVars>>

(* A variant of Finally in which a failed write surfaces as an error event. *)
Finally_surfaces_failure(t, ok) ==
    /\ pc[t] = "in_try"
    /\ pending[t] = <<>>
    /\ LET sid == tsid[t]
           session == [sessions[sid] EXCEPT !.state = "IDLE"]
       IN  /\ sessions' = [sessions EXCEPT ![sid] = session]
           /\ saved' = [saved EXCEPT ![t] = Append(@, to_dict(sid, session))]
           /\ store' = save_session(store, sid, to_dict(sid, session), ok)
    /\ events' = [events EXCEPT ![t] = IF ok THEN @ ELSE Append(@, ErrorEvent)]
    /\ pc' = [pc EXCEPT ![t] = "done"]
    /\ UNCHANGED <<tsid, gctx, pending, full_response, outcome,
                   llmCalls, llm_result, side_effects, genCalls, valRuns, pureVars>>

(* Lines 461-464: the finally clause.  ok: whether the store's write works. *)
Finally(t, ok) ==
    /\ pc[t] = "in_try"
    /\ pending[t] = <<>>
    /\ LET sid == tsid[t]
           session == [sessions[sid] EXCEPT !.state = "IDLE"]
       IN  /\ sessions' = [sessions EXCEPT ![sid] = session]
           /\ saved' = [saved EXCEPT ![t] = Append(@, to_dict(sid, session))]
           /\ store' = save_session(store, sid, to_dict(sid, session), ok)
    /\ pc' = [pc EXCEPT ![t] = "done"]
    /\ UNCHANGED <<tsid, gctx, events, pending, full_response, outcome,
                   llmCalls, llm_result, side_effects, genCalls, valRuns, pureVars>>

(* A variant of from_dict that does not read the stored violation count. *)
from_dict_fresh_count(data) ==
    [state |-> IF "state" \in DOMAIN data THEN data.state ELSE "IDLE",
     context_domain |-> IF "context_domain" \in DOMAIN data
                        THEN data.context_domain ELSE None,
     violation_count |-> 0,
     created_at |-> data.created_at,
     thought_chain |-> IF "thought_chain" \in DOMAIN data
                       THEN [i \in 1..Len(data.thought_chain) |->
                               ThoughtStep(data.thought_chain[i])]
                       ELSE <<>>]

(* A variant of from_dict that stamps the session with the time of the load. *)
from_dict_created_now(data) ==
    [state |-> IF "state" \in DOMAIN data THEN data.state ELSE "IDLE",
     context_domain |-> IF "context_domain" \in DOMAIN data
                        THEN data.context_domain ELSE None,
     violation_count |-> IF "violation_count" \in DOMAIN data
                         THEN data.violation_count ELSE 0,
     created_at |-> "utcnow",
     thought_chain |-> IF "thought_chain" \in DOMAIN data
                       THEN [i \in 1..Len(data.thought_chain) |->
                               ThoughtStep(data.thought_chain[i])]
                       ELSE <<>>]

(* agent.py AgentSession.from_dict *)
from_dict(data) ==
    [state |-> IF "state" \in DOMAIN data THEN data.state ELSE "IDLE",
     context_domain |-> IF "context_domain" \in DOMAIN data
                        THEN data.context_domain ELSE None,
     violation_count |-> IF "violation_count" \in DOMAIN data
                         THEN data.violation_count ELSE 0,
     created_at |-> data.created_at,
     thought_chain |-> IF "thought_chain" \in DOMAIN data
                       THEN [i \in 1..Len(data.thought_chain) |->
                               ThoughtStep(data.thought_chain[i])]
                       ELSE <<>>]

load_session(st, sid, ok) ==
    IF ok /\ sid \in DOMAIN st THEN st[sid] ELSE NoDocument

(* agent.py get_session, lines 184-191: the session is not in memory and   *)
(* is looked up in the store.                                              *)
get_session(sid, ok) ==
    /\ sid \notin DOMAIN sessions
    /\ load_session(store, sid, ok) # NoDocument
    /\ sessions' = sessions @@ (sid :> from_dict(load_session(store, sid, ok)))
    /\ UNCHANGED <<store, turnVars, pureVars>>

(* The server process starts anew between two turns: AtlasAgent.__init__   *)
(* (agent.py:147) gives an empty sessions dict; the store keeps its        *)
(* documents.                                                              *)
Restart ==
    /\ sessions # <<>>
    /\ \A t \in Turns : pc[t] \in {"idle", "done"}
    /\ sessions' = <<>>
    /\ pc' = [t \in Turns |-> "idle"]
    /\ UNCHANGED <<store, tsid, gctx, events, pending, full_response, outcome,
                   llmCalls, llm_result, side_effects, genCalls, valRuns, saved, pureVars>>

(***************************************************************************)
(* Spec: one connection, as main.py's websocket_endpoint runs it: a        *)
(* session is created, then its turns run one after the other.  The        *)
(* store's writes succeed.                                                 *)
(***************************************************************************)
Next ==
    \/ create_session("s1")
    \/ \E query \in Queries : StartTurn("t1", "s1", query)
    \/ \E llm \in LLMOutcomes : ClassifierReturns("t1", llm)
    \/ EmitNext("t1")
    \/ PolicyBlock("t1")
    \/ PolicyWarn("t1")
    \/ ReturnEarly("t1")
    \/ PolicyPass("t1")
    \/ BeginGeneration("t1")
    \/ GenerationFails("t1")
    \/ \E text \in GenTexts, side \in SideOutcomes \cup {NoSide} :
          GenerationReturns("t1", text, side)
    \/ Finally("t1", TRUE)

Spec == Init /\ [][Next]_vars

(***************************************************************************)
(* SpecReload: as Spec, and the process may start anew between turns;      *)
(* main.py's chat handler (line 145) then finds the session of a known id  *)
(* through get_session.                                                    *)
(***************************************************************************)
NextReload ==
    \/ Next
    \/ Restart
    \/ get_session("s1", TRUE)

SpecReload == Init /\ [][NextReload]_vars

(***************************************************************************)
(* The caller stops the turn.  main.py's websocket_endpoint iterates think *)
(* and sends each event; when the client has gone the send raises, the     *)
(* loop is left and the generator is closed where it is suspended; a       *)
(* cancelled task raises CancelledError at the await it is suspended in.   *)
(* Neither GeneratorExit nor CancelledError is an Exception, so the except *)
(* clause of line 452 does not catch them, and the finally clause runs     *)
(* only when the suspension point is inside the try of line 290.           *)
(***************************************************************************)

(* A variant of CancelGeneration for a call made outside the try. *)
CancelGeneration_no_finally(t) ==
    /\ pc[t] = "generating"
    /\ pc' = [pc EXCEPT ![t] = "done"]
    /\ pending' = [pending EXCEPT ![t] = <<>>]
    /\ outcome' = [outcome EXCEPT ![t] = "cancelled"]
    /\ UNCHANGED <<sessions, store, tsid, gctx, events, full_response,
                   llmCalls, llm_result, side_effects, genCalls, valRuns, saved, pureVars>>

(* Cancelled at the await of generate_content, lines 294-302. *)
CancelGeneration(t) ==
    /\ pc[t] = "generating"
    /\ pc' = [pc EXCEPT ![t] = "in_try"]
    /\ pending' = [pending EXCEPT ![t] = <<>>]
    /\ outcome' = [outcome EXCEPT ![t] = "cancelled"]
    /\ UNCHANGED <<sessions, store, tsid, gctx, events, full_response,
                   llmCalls, llm_result, side_effects, genCalls, valRuns, saved, pureVars>>

(* Closed at a yield inside the try, lines 402-450, with events still to   *)
(* come.                                                                   *)
CloseInTry(t) ==
    /\ pc[t] = "in_try"
    /\ pending[t] # <<>>
    /\ pending' = [pending EXCEPT ![t] = <<>>]
    /\ outcome' = [outcome EXCEPT ![t] = "closed"]
    /\ UNCHANGED <<sessions, store, pc, tsid, gctx, events, full_response,
                   llmCalls, llm_result, side_effects, genCalls, valRuns, saved, pureVars>>

(* Stopped before the try: at the await of line 213, at a yield of the     *)
(* audit loop of lines 223-227, or at the yield of lines 271-279.          *)
StopBeforeTry(t) ==
    /\ pc[t] \in {"classify", "audit_loop", "gen_audit"}
    /\ pc' = [pc EXCEPT ![t] = "done"]
    /\ pending' = [pending EXCEPT ![t] = <<>>]
    /\ outcome' = [outcome EXCEPT ![t] = "stopped"]
    /\ UNCHANGED <<sessions, store, tsid, gctx, events, full_response,
                   llmCalls, llm_result, side_effects, genCalls, valRuns, saved, pureVars>>

(***************************************************************************)
(* SpecFaults: one connection as in Spec, where the caller may stop a turn *)
(* and the store's write may fail.  The turns take one query, classifier   *)
(* answer and generated text of each kind that changes the path taken.     *)
(***************************************************************************)
FaultQueries == { {}, {"jailbreak"}, {"health"} }

FaultLLMOutcomes ==
    { [kind |-> "text", names |-> {c}] :
        c \in {"RESUME_DEEP_DIVE", "GENERAL_CHAT", "OFF_TOPIC"} }

FaultTexts == { <<"word", ".">>, <<"TRAP", "MARKER", ".">> }

NextFaults ==
    \/ create_session("s1")
    \/ \E query \in FaultQueries : StartTurn("t1", "s1", query)
    \/ \E llm \in FaultLLMOutcomes : ClassifierReturns("t1", llm)
    \/ EmitNext("t1")
    \/ PolicyBlock("t1")
    \/ PolicyWarn("t1")
    \/ ReturnEarly("t1")
    \/ PolicyPass("t1")
    \/ BeginGeneration("t1")
    \/ GenerationFails("t1")
    \/ \E text \in FaultTexts : GenerationReturns("t1", text, NoSide)
    \/ Finally("t1", TRUE)
    \/ CancelGeneration("t1")
    \/ CloseInTry("t1")
    \/ StopBeforeTry("t1")
    \/ Finally("t1", FALSE)

SpecFaults == Init /\ [][NextFaults]_vars

(***************************************************************************)
(* SpecPair: two connections served by the one agent, each with a session  *)
(* of its own (main.py 364-386); their turns interleave at every           *)
(* suspension point.                                                       *)
(***************************************************************************)
SessionOf == [t \in Turns |-> IF t = "t1" THEN "s1" ELSE "s2"]

PairQueries == { {"jailbreak"}, {"health"} }

PairLLMOutcomes ==
    { [kind |-> "text", names |-> {c}] : c \in {"RESUME_DEEP_DIVE", "OFF_TOPIC"} }

PairTexts == { <<"word", ".">> }

NextPair ==
    \E t \in Turns :
        \/ create_session(SessionOf[t])
        \/ \E query \in PairQueries : StartTurn(t, SessionOf[t], query)
        \/ \E llm \in PairLLMOutcomes : ClassifierReturns(t, llm)
        \/ EmitNext(t)
        \/ PolicyBlock(t)
        \/ PolicyWarn(t)
        \/ ReturnEarly(t)
        \/ PolicyPass(t)
        \/ BeginGeneration(t)
        \/ GenerationFails(t)
        \/ \E text \in PairTexts : GenerationReturns(t, text, NoSide)
        \/ Finally(t, TRUE)

SpecPair == Init /\ [][NextPair]_vars

(***************************************************************************)
(* SpecSequel: one connection whose loop (main.py 377-382) serves one      *)
(* message after the other on its session.  Turn "t1" is every turn up to  *)
(* some message and turn "t2" is the turn of the message after it, so that *)
(* a state shows how the earlier turn ended next to the later turn.        *)
(***************************************************************************)
NextSequel ==
    \/ create_session("s1")
    \/ \E query \in FaultQueries :
          pc["t2"] = "idle" /\ StartTurn("t1", "s1", query)
    \/ \E query \in FaultQueries :
          pc["t1"] = "done" /\ pc["t2"] = "idle" /\ StartTurn("t2", "s1", query)
    \/ \E t \in Turns :
          \/ \E llm \in FaultLLMOutcomes : ClassifierReturns(t, llm)
          \/ EmitNext(t)
          \/ PolicyBlock(t)
          \/ PolicyWarn(t)
          \/ ReturnEarly(t)
          \/ PolicyPass(t)
          \/ BeginGeneration(t)
          \/ GenerationFails(t)
          \/ \E text \in FaultTexts : GenerationReturns(t, text, NoSide)
          \/ Finally(t, TRUE)

SpecSequel == Init /\ [][NextSequel]_vars

(***************************************************************************)
(* SpecValidate: one connection as in Spec whose queries all pass policy   *)
(* and whose generated texts have several sentences with different         *)
(* verdicts, inner spacing and a trailing fragment.                        *)
(***************************************************************************)
ValidateQueries == { {}, {"submission"} }

ValidateLLMOutcomes == { [kind |-> "text", names |-> {"RESUME_DEEP_DIVE"}] }

ValidateTexts ==
    { <<"EMP", ".", " ", "ASSERT", ".", " ", "PROJ", "?">>,
      <<"ASSERT", ".", "ASSERT", "SKILL", ".", "word">>,
      <<"TRAP", ".", " ", "word", ".", " ">>,
      <<"CONTACT", ".", " ", "ASSERT", "?", "SKILL", ".">>,
      <<" ", "ASSERT", ".", "EMP">>,
      <<"ASSERT", ".">>,
      <<"word", ".">>,
      <<"word">> }

NextValidate ==
    \/ create_session("s1")
    \/ \E query \in ValidateQueries : StartTurn("t1", "s1", query)
    \/ \E llm \in ValidateLLMOutcomes : ClassifierReturns("t1", llm)
    \/ EmitNext("t1")
    \/ PolicyPass("t1")
    \/ BeginGeneration("t1")
    \/ \E text \in ValidateTexts, side \in SideOutcomes \cup {NoSide} :
          GenerationReturns("t1", text, side)
    \/ Finally("t1", TRUE)

SpecValidate == Init /\ [][NextValidate]_vars

(***************************************************************************)
(* agent.py query, lines 466-495, called by chat_endpoint (main.py         *)
(* 251-266).  Without an id it creates a session and iterates think on it. *)
(* With an id, line 472 calls the coroutine function get_session without   *)
(* awaiting it: `session` is a coroutine object, which is truthy, so line  *)
(* 477 creates nothing and line 481 raises AttributeError on               *)
(* `session.session_id`; get_session's body never runs and no turn starts. *)
(* fin keeps the arguments of the call.                                    *)
(***************************************************************************)
agent_query(t, session_id, query) ==
    /\ pc[t] \in {"idle", "done"}
    /\ fin' = [NoInput EXCEPT !.op = "query", !.session_id = session_id,
                              !.query = query]
    /\ fout' = fout
    /\ IF session_id = None
       THEN \E sid \in SessionIds :
               /\ sid \notin DOMAIN sessions
               /\ sid \notin DOMAIN store
               /\ BeginTurn(sessions @@ (sid :> AgentSession), t, sid, query)
       ELSE /\ pc' = [pc EXCEPT ![t] = "done"]
            /\ outcome' = [outcome EXCEPT ![t] = "AttributeError"]
            /\ tsid' = [tsid EXCEPT ![t] = None]
            /\ gctx' = [gctx EXCEPT ![t] = NoContext]
            /\ events' = [events EXCEPT ![t] = <<>>]
            /\ pending' = [pending EXCEPT ![t] = <<>>]
            /\ UNCHANGED <<sessions, store, full_response, llmCalls, llm_result,
                           side_effects, genCalls, valRuns, saved>>

(***************************************************************************)
(* SpecQuery: the REST endpoint, one request at a time; each request gives *)
(* no session id or one of the ids.                                        *)
(***************************************************************************)
NextQuery ==
    \/ \E session_id \in {None} \cup SessionIds, query \in FaultQueries :
          agent_query("t1", session_id, query)
    \/ \E llm \in FaultLLMOutcomes : ClassifierReturns("t1", llm)
    \/ EmitNext("t1")
    \/ PolicyBlock("t1")
    \/ PolicyWarn("t1")
    \/ ReturnEarly("t1")
    \/ PolicyPass("t1")
    \/ BeginGeneration("t1")
    \/ GenerationFails("t1")
    \/ \E text \in FaultTexts : GenerationReturns("t1", text, NoSide)
    \/ Finally("t1", TRUE)

SpecQuery == Init /\ [][NextQuery]_vars

(***************************************************************************)
(* SpecOverlap: two chat messages with the same session id handled by the  *)
(* socket.io handler (main.py 134-150) at the same time: two turns of one  *)
(* session that interleave at every suspension point.                      *)
(***************************************************************************)
OverlapQueries == { {}, {"jailbreak"} }

NextOverlap ==
    \/ create_session("s1")
    \/ \E t \in Turns :
          \/ \E query \in OverlapQueries : StartTurn(t, "s1", query)
          \/ \E llm \in PairLLMOutcomes : ClassifierReturns(t, llm)
          \/ EmitNext(t)
          \/ PolicyBlock(t)
          \/ PolicyWarn(t)
          \/ ReturnEarly(t)
          \/ PolicyPass(t)
          \/ BeginGeneration(t)
          \/ GenerationFails(t)
          \/ \E text \in PairTexts : GenerationReturns(t, text, NoSide)
          \/ Finally(t, TRUE)

SpecOverlap == Init /\ [][NextOverlap]_vars

(***************************************************************************)
(* SpecPure: a function of governance.py applied on its own to an input    *)
(* drawn from bounded sets.                                                *)
(***************************************************************************)
Texts == SeqsUpTo(Tokens, MaxTextLen)

ThreatFeatures == {"jailbreak", "credential", "codeexec", "pii"}

(* The sessions a snapshot is taken of: any state, domain, count and       *)
(* creation time, and a chain of up to MaxSteps reasoning steps.           *)
MaxSteps == 2

Steps ==
    [thought : {"thought"}, action : {None}, action_input : {None},
     observation : {None}, timestamp : {"t0", "t1"}]

SnapshotSessions ==
    [state : AgentState, context_domain : {None, "Healthcare", "FinTech", "LegalTech"},
     violation_count : 0..MaxCount, created_at : {"t0", "t1"},
     thought_chain : SeqsUpTo(Steps, MaxSteps)]

PureInputs ==
    [op : {"check_actionability"}, cat : QueryType, count : 0..MaxCount, text : {<<>>},
     query : {{}}, session_id : {None}, session : {AgentSession}]
    \cup
    [op : {"validate_response"}, cat : {"GENERAL_CHAT"}, count : {0}, text : Texts,
     query : {{}}, session_id : {None}, session : {AgentSession}]
    \cup
    [op : {"classify_query"}, cat : {"GENERAL_CHAT"}, count : 0..MaxCount, text : {<<>>},
     query : SUBSET ThreatFeatures, session_id : {None}, session : {AgentSession}]
    \cup
    [op : {"round_trip"}, cat : {"GENERAL_CHAT"}, count : {0}, text : {<<>>},
     query : {{}}, session_id : SessionIds, session : SnapshotSessions]

InitPure ==
    /\ TurnInit
    /\ fin \in PureInputs
    /\ fout = NoOutput

ApplyCheckActionability ==
    /\ fin.op = "check_actionability"
    /\ ~fout.done
    /\ fout' = [fout EXCEPT !.done = TRUE,
                            !.policy = check_actionability(fin.cat, fin.count)]
    /\ UNCHANGED <<sessions, store, turnVars, fin>>

ApplyValidateResponse ==
    /\ fin.op = "validate_response"
    /\ ~fout.done
    /\ fout' = [fout EXCEPT !.done = TRUE,
                            !.validation = validate_response(fin.text, NoContext)]
    /\ UNCHANGED <<sessions, store, turnVars, fin>>

(* classify_query on the query, whatever the classifier call would give,   *)
(* followed by check_actionability at the given count.                     *)
ApplyClassifyQuery ==
    /\ fin.op = "classify_query"
    /\ ~fout.done
    /\ \E llm \in LLMOutcomes :
          fout' = [fout EXCEPT
                     !.done = TRUE,
                     !.category = classify_query(fin.query, llm),
                     !.policy = check_actionability(classify_query(fin.query, llm),
                                                    fin.count)]
    /\ UNCHANGED <<sessions, store, turnVars, fin>>

(* to_dict and save_session of the session under its id, into a store     *)
(* that has no document of that id or an older one, then load_session and  *)
(* from_dict as get_session does them.                                     *)
ApplyRoundTrip ==
    /\ fin.op = "round_trip"
    /\ ~fout.done
    /\ \E prior \in { <<>>, (fin.session_id :> to_dict(fin.session_id, AgentSession)) } :
          LET st == save_session(prior, fin.session_id,
                                 to_dict(fin.session_id, fin.session), TRUE)
              doc == load_session(st, fin.session_id, TRUE)
          IN  fout' = [fout EXCEPT !.done = TRUE,
                                   !.document = doc,
                                   !.loaded = from_dict(doc)]
    /\ UNCHANGED <<sessions, store, turnVars, fin>>

NextPure ==
    \/ ApplyCheckActionability
    \/ ApplyValidateResponse
    \/ ApplyClassifyQuery
    \/ ApplyRoundTrip

SpecPure == InitPure /\ [][NextPure]_vars

(***************************************************************************)
(* Properties.                                                             *)
(***************************************************************************)
Last(s) == s[Len(s)]

(* The policy decision of a turn: check_actionability on the category and  *)
(* the count the turn's context holds.                                     *)
Decided(t) == pc[t] \notin {"idle", "classify"}

PolicyDecision(t) ==
    check_actionability(gctx[t].query_type, gctx[t].violation_count).status

Terminal(t) ==
    { i \in 1..Len(events[t]) : events[t][i].type \in {"response", "error"} }

Responses(t) == { i \in 1..Len(events[t]) : events[t][i].type = "response" }

EndsWithResponse(t) ==
    /\ events[t] # <<>>
    /\ Last(events[t]).type = "response"
    /\ Cardinality(Responses(t)) = 1

PolicyTable(category, count) ==
    IF category \in {"SECURITY_PROBE", "UNETHICAL_REQUEST"} THEN "BLOCK"
    ELSE IF category \in {"TOOL_USE_ATTEMPT", "CODE_EXECUTION_ATTEMPT", "OFF_TOPIC"}
    THEN IF count = 0 THEN "WARN" ELSE "BLOCK"
    ELSE "PASS"

(* C2: check_actionability(category, count) gives the status of the table  *)
(* for every category and every count >= 0.                                *)
C2_PolicyTable ==
    (fin.op = "check_actionability" /\ fout.done) =>
        fout.policy.status = PolicyTable(fin.cat, fin.count)

C2_Witness ==
    /\ fin.op = "check_actionability"
    /\ fout.done
    /\ fin.cat = "OFF_TOPIC"
    /\ fin.count = 1
    /\ fout.policy.status = "BLOCK"

(* A sentence of the turn's generated text that validate_claim rejects as  *)
(* a hallucination trap.                                                   *)
TrapRejected(t) ==
    \E i \in 1..Len(gctx[t].blocked_claims) :
        Mentions(gctx[t].blocked_claims[i], HALLUCINATION_TRAP_PATTERNS)

(* C3: when the validator rejects a sentence because it matches a          *)
(* hallucination-trap pattern, the turn ends with a response event with    *)
(* blocked = true and the session's violation count is 2 more than at the  *)
(* start of the turn (no decay).                                           *)
C3_TrapBlocksTurn ==
    \A t \in Turns :
        (pc[t] = "done" /\ TrapRejected(t)) =>
            /\ EndsWithResponse(t)
            /\ Last(events[t]).data.blocked
            /\ sessions[tsid[t]].violation_count = gctx[t].violation_count + 2

(* The sentences of a text, as validate_response cuts them. *)
SentencesOf(text) ==
    { strip(split_sentences(text)[i]) : i \in 1..Len(split_sentences(text)) }

(* C4: the content of the final response event of a turn holds no sentence *)
(* that the validator rejected in that turn.                               *)
C4_NoRejectedSentenceShown ==
    \A t \in Turns :
        (pc[t] = "done" /\ valRuns[t] > 0 /\ EndsWithResponse(t)) =>
            \A i \in 1..Len(gctx[t].blocked_claims) :
                gctx[t].blocked_claims[i] \notin SentencesOf(Last(events[t]).data.content)

(* C5: every turn that ends has passed the session snapshot to             *)
(* save_session, and that snapshot carries the violation count the session *)
(* has at the end of the turn.                                             *)
C5_EveryTurnSaves ==
    \A t \in Turns :
        pc[t] = "done" =>
            /\ saved[t] # <<>>
            /\ Last(saved[t]).violation_count = sessions[tsid[t]].violation_count

StreamChunks(t) ==
    LET idx == { i \in 1..Len(events[t]) : events[t][i].type = "stream" }
        F[i \in 0..Len(events[t])] ==
            IF i = 0 THEN <<>>
            ELSE IF i \in idx THEN F[i - 1] \o events[t][i].data.chunk
            ELSE F[i - 1]
    IN  F[Len(events[t])]

(* C9: in a turn that passes policy and whose generation succeeds, the     *)
(* generated text is yielded as one or more stream events before the       *)
(* response event, the chunks in order making up the generated text.       *)
C9_StreamsBeforeResponse ==
    \A t \in Turns :
        (pc[t] = "done" /\ outcome[t] = "ok" /\ "submission" \notin gctx[t].query) =>
            /\ \E i \in 1..Len(events[t]) : events[t][i].type = "stream"
            /\ StreamChunks(t) = full_response[t]

(* The trailing piece of a text: what follows its last terminal punctuation. *)
TrailingFragment(text) == strip(Last(re_split(text)))

(* C10: when the generated text ends in a fragment without terminal        *)
(* punctuation, the content of the response event has no such fragment.    *)
C10_FragmentDiscarded ==
    \A t \in Turns :
        (pc[t] = "done" /\ outcome[t] = "ok" /\ TrailingFragment(full_response[t]) # <<>>) =>
            TrailingFragment(Last(events[t]).data.content) = <<>>

(* C11: the violation count of a session, in memory or in the store, is    *)
(* never negative, whatever turns, restarts and loads came before.         *)
C11_CountNeverNegative ==
    /\ \A sid \in DOMAIN sessions : sessions[sid].violation_count >= 0
    /\ \A sid \in DOMAIN store : store[sid].violation_count >= 0
    /\ \A t \in Turns : gctx[t].violation_count >= 0

(* A vetting turn that started at count 0 succeeded: the floor case. *)
C11_Witness ==
    \E t \in Turns :
        /\ pc[t] = "done"
        /\ outcome[t] = "ok"
        /\ gctx[t].query_type \in vetting_types
        /\ gctx[t].violation_count = 0
        /\ sessions[tsid[t]].violation_count = 0
        /\ store[tsid[t]].violation_count = 0

(* A turn that passed policy and came out of claim validation without the  *)
(* trap test of agent.py:377 firing.                                       *)
ValidatedUntrapped(t) ==
    /\ pc[t] = "done"
    /\ valRuns[t] > 0
    /\ ~is_trap(gctx[t].audit_log)

DecayStep(t) ==
    /\ pc[t] = "generating"
    /\ pc'[t] = "in_try"
    /\ valRuns'[t] = valRuns[t] + 1
    /\ ~is_trap(gctx'[t].audit_log)
    /\ gctx'[t].query_type \in vetting_types

CountStep(sid) ==
    /\ (/\ sid \in DOMAIN sessions
        /\ sid \in DOMAIN sessions'
        /\ sessions'[sid].violation_count < sessions[sid].violation_count)
       => /\ sessions'[sid].violation_count = sessions[sid].violation_count - 1
          /\ \E t \in Turns : tsid[t] = sid /\ DecayStep(t)
    /\ (/\ sid \notin DOMAIN sessions
        /\ sid \in DOMAIN sessions'
        /\ sid \in DOMAIN store)
       => sessions'[sid].violation_count = store[sid].violation_count
    /\ (/\ sid \in DOMAIN store
        /\ sid \in DOMAIN store'
        /\ store'[sid].violation_count < store[sid].violation_count)
       => store'[sid].violation_count = sessions'[sid].violation_count

Enforced(t, status) ==
    \E i \in 1..Len(events[t]) :
        /\ events[t][i].type = "audit"
        /\ events[t][i].data.action = "POLICY ENFORCEMENT"
        /\ events[t][i].data.status = status

RestrictedTurnDone(t, start) ==
    /\ pc[t] = "done"
    /\ gctx[t].query_type \in {"TOOL_USE_ATTEMPT", "CODE_EXECUTION_ATTEMPT", "OFF_TOPIC"}
    /\ gctx[t].violation_count = start

TurnStarts(t) == pc[t] \in {"idle", "done"} /\ pc'[t] \notin {"idle", "done"}

C15_HeuristicsSkipClassifier ==
    \A t \in Turns :
        /\ (gctx[t].query \cap {"jailbreak", "credential"} # {}) =>
              /\ llmCalls[t] = 0
              /\ pc[t] # "classify"
              /\ Decided(t) => gctx[t].query_type = "SECURITY_PROBE"
        /\ llmCalls[t] > 0 =>
              gctx[t].query \cap {"jailbreak", "credential", "codeexec"} = {}

C15_Witness ==
    \E t \in Turns :
        /\ pc[t] = "done"
        /\ "credential" \in gctx[t].query
        /\ gctx[t].query_type = "SECURITY_PROBE"
        /\ llmCalls[t] = 0
        /\ Enforced(t, "BLOCK")

(* The classifier call of the turn raised, gave no text, or gave a text    *)
(* with no category name in it.                                            *)
FailedClassification(t) ==
    \/ llm_result[t].kind \in {"raise", "empty"}
    \/ llm_result[t].kind = "text" /\ llm_result[t].names = {}

GenuineResumeLog(t) ==
    run_compliance_check(
        GovernanceContext(tsid[t], gctx[t].query, gctx[t].violation_count),
        [kind |-> "text", names |-> {"RESUME_DEEP_DIVE"}]).audit_log

(* C17: the audit log of a turn whose category came from a classifier      *)
(* failure differs, in the action, status or details of some entry, from   *)
(* the audit log the same turn has when the classifier answers             *)
(* RESUME_DEEP_DIVE.                                                       *)
C17_FailOpenMarked ==
    \A t \in Turns :
        (FailedClassification(t) /\ pc[t] = "audit_loop") =>
            gctx[t].audit_log # GenuineResumeLog(t)

(* C18: in a turn whose query carries the structured-submission marker the *)
(* generation capability is not called, and the text that enters claim     *)
(* validation is the fixed acknowledgment (the apology when capture        *)
(* fails).                                                                 *)
C18_SubmissionSkipsGeneration ==
    \A t \in Turns :
        "submission" \in gctx[t].query =>
            /\ genCalls[t] = 0
            /\ valRuns[t] > 0 => full_response[t] \in {ACK, APOLOGY}

(* C19: on a submission turn in which capture raised, or send_lead_alert   *)
(* reported that nothing was sent, the turn ends with a response event and *)
(* no error event, the content is the apology and session_terminated is    *)
(* false.                                                                  *)
C19_SideEffectFailureDegrades ==
    \A t \in Turns :
        (/\ pc[t] = "done"
         /\ "submission" \in gctx[t].query
         /\ valRuns[t] > 0
         /\ (side_effects[t].capture = "raise" \/ ~side_effects[t].email_sent)) =>
            /\ EndsWithResponse(t)
            /\ \A i \in 1..Len(events[t]) : events[t][i].type # "error"
            /\ Last(events[t]).data.content = APOLOGY
            /\ Last(events[t]).data.session_terminated = FALSE

(* A turn that made the generation call and ended without running claim    *)
(* validation: the call failed.                                            *)
GenerationFailed(t) ==
    /\ pc[t] = "done"
    /\ genCalls[t] = 1
    /\ valRuns[t] = 0

CancelledInGeneration(t) ==
    /\ pc[t] = "done"
    /\ outcome[t] = "cancelled"
    /\ genCalls[t] = 1
    /\ valRuns[t] = 0

FinallyStep(t) == pc[t] = "in_try" /\ pc'[t] = "done"

(* C22: whether or not the store's write works, the finally step of a turn *)
(* adds no event, leaves the session as it was but for the state IDLE,     *)
(* and ends the turn; a failed write leaves the store as it was.           *)
C22_SaveFailureSwallowed ==
    [][\A t \in Turns :
         FinallyStep(t) =>
            /\ events'[t] = events[t]
            /\ sessions' = [sessions EXCEPT ![tsid[t]].state = "IDLE"]
            /\ Len(saved'[t]) = Len(saved[t]) + 1
            /\ \/ store' = store
               \/ store'[tsid[t]] = Last(saved'[t])]_vars

(* A turn ended with a response although its save did not reach the store. *)
C22_Witness ==
    \E t \in Turns :
        /\ pc[t] = "done"
        /\ saved[t] # <<>>
        /\ tsid[t] \notin DOMAIN store
        /\ EndsWithResponse(t)
        /\ sessions[tsid[t]].state = "IDLE"

(* No turn of session sid is between its start and its end. *)
NoTurnInProgress(sid) ==
    \A t \in Turns : tsid[t] = sid => pc[t] \in {"idle", "done"}

(* A turn that passed policy has ended with its terminal event: a          *)
(* response, a trap block or a generation error.                           *)
PassedAndEnded(t) ==
    /\ pc[t] = "done"
    /\ genCalls[t] = 1
    /\ Terminal(t) # {}

PassedTurnsEndIdle ==
    \A t \in Turns : PassedAndEnded(t) => sessions[tsid[t]].state = "IDLE"

(* C23: every turn that passes policy ends with the session IDLE, and a    *)
(* session with no turn in progress is never THINKING, ACTING or           *)
(* RESPONDING.                                                             *)
C23_LifecycleReturnsToIdle ==
    /\ PassedTurnsEndIdle
    /\ \A sid \in DOMAIN sessions :
          NoTurnInProgress(sid) =>
              sessions[sid].state \notin {"THINKING", "ACTING", "RESPONDING"}

(* The audit entries turn t has emitted, in the order of emission. *)
AuditData(t) ==
    LET F[i \in 0..Len(events[t])] ==
            IF i = 0 THEN <<>>
            ELSE IF events[t][i].type = "audit"
            THEN Append(F[i - 1], events[t][i].data)
            ELSE F[i - 1]
    IN  F[Len(events[t])]

Emitted(t, action) ==
    \E i \in 1..Len(events[t]) :
        events[t][i].type = "audit" /\ events[t][i].data.action = action

Direct(t, action, status, details) ==
    IF Emitted(t, action) THEN <<AuditLogEntry(action, status, details)>> ELSE <<>>

(* The audit entries of a turn that came out of claim validation, in the   *)
(* order of their creation: the entries of the compliance check, the       *)
(* GENERATING RESPONSE entry, the entries of validate_response, then the   *)
(* decay, lead and completion entries that think builds.                   *)
CreatedInOrder(t) ==
    LET log == gctx[t].audit_log
        fromValidation == { i \in 1..Len(log) :
                              log[i].action \in {"CLAIM VALIDATION", "GOVERNANCE LAYER"} }
        k == Len(log) - Cardinality(fromValidation)
    IN  SubSeq(log, 1, k)
        \o Direct(t, "GENERATING RESPONSE", "PENDING", <<"Consulting Gemini">>)
        \o SubSeq(log, k + 1, Len(log))
        \o Direct(t, "GOVERNANCE DECAY", "PASS", <<"Compliance score improved">>)
        \o Direct(t, "LEAD CAPTURED", "PASS", <<"Lead persisted">>)
        \o Direct(t, "RESPONSE COMPLETE", "PASS", <<"Verified facts">>)

(* a is b with some entries left out: the position in b that the greedy    *)
(* match of a reaches, or Len(b) + 1 when a does not fit.                  *)
IsSubsequence(a, b) ==
    LET NextAt[i \in 0..Len(a)] ==
            IF i = 0 THEN 0
            ELSE IF NextAt[i - 1] > Len(b) THEN Len(b) + 1
            ELSE IF \E j \in (NextAt[i - 1] + 1)..Len(b) : b[j] = a[i]
            THEN CHOOSE j \in (NextAt[i - 1] + 1)..Len(b) :
                    /\ b[j] = a[i]
                    /\ \A m \in (NextAt[i - 1] + 1)..(j - 1) : b[m] # a[i]
            ELSE Len(b) + 1
    IN  NextAt[Len(a)] <= Len(b)

(* C24: the audit events of a turn come in the order in which their        *)
(* entries were created, and no entry is emitted twice.                    *)
C24_AuditInCreationOrder ==
    \A t \in Turns :
        (pc[t] = "done" /\ valRuns[t] > 0 /\ ~is_trap(gctx[t].audit_log)) =>
            IsSubsequence(AuditData(t), CreatedInOrder(t))

(* C25: no step of any turn takes the domain context of a session from a   *)
(* label back to none.                                                     *)
C25_DomainSticky ==
    [][\A sid \in DOMAIN sessions :
         (sessions[sid].context_domain # None /\ sid \in DOMAIN sessions') =>
            sessions'[sid].context_domain # None]_vars

(* A turn ended in BLOCK on a session whose domain an earlier turn set. *)
C25_Witness ==
    \E t \in Turns :
        /\ pc[t] = "done"
        /\ Enforced(t, "BLOCK")
        /\ gctx[t].violation_count = 1
        /\ sessions[tsid[t]].context_domain = "FinTech"

TurnView(t) ==
    <<pc[t], tsid[t], gctx[t], events[t], pending[t], full_response[t], outcome[t],
      llmCalls[t], llm_result[t], side_effects[t], genCalls[t], valRuns[t], saved[t]>>

SessionView(sid) ==
    <<IF sid \in DOMAIN sessions
      THEN <<sessions[sid].violation_count, sessions[sid].state,
             sessions[sid].context_domain>>
      ELSE <<>>,
      IF sid \in DOMAIN store THEN store[sid] ELSE NoDocument>>

ActsIn(t) ==
    \/ TurnView(t)' # TurnView(t)
    \/ SessionView(SessionOf[t])' # SessionView(SessionOf[t])

(* C26: a step of a turn of one session, taken at any point of the other   *)
(* session's turn, leaves the other session's violation count, lifecycle   *)
(* state, domain context, stored document and turn as they were, so each   *)
(* session goes through the values it goes through alone.                  *)
C26_SessionsIndependent ==
    [][\A t \in Turns : ActsIn(t) =>
         \A u \in Turns \ {t} :
            /\ SessionView(SessionOf[u])' = SessionView(SessionOf[u])
            /\ TurnView(u)' = TurnView(u)]_vars

(* Both turns are suspended in the generation call, one in a session with  *)
(* a strike and the other in a session with a domain and no strike.        *)
C26_Witness ==
    /\ pc["t1"] = "generating"
    /\ pc["t2"] = "generating"
    /\ sessions["s1"].violation_count = 1
    /\ sessions["s2"].violation_count = 0
    /\ sessions["s1"].state \in {"THINKING", "ACTING", "RESPONDING"}
    /\ sessions["s2"].context_domain = "Healthcare"

Validated == fin.op = "validate_response" /\ fout.done

(* C27: a sentence that matches a trap pattern is rejected by              *)
(* validate_claim with the trap reason, and validate_response files it     *)
(* under blocked_claims and not under verified_facts, whatever employer,   *)
(* project or skill it also names.                                         *)
C27_TrapBeatsKnownNames ==
    Validated =>
        \A s \in SentencesOf(fin.text) :
            Mentions(s, HALLUCINATION_TRAP_PATTERNS) =>
                /\ validate_claim(s) =
                      [valid |-> FALSE,
                       reason |-> "CRITICAL: Hallucination Trap Triggered"]
                /\ s \in Range(fout.validation.context.blocked_claims)
                /\ s \notin Range(fout.validation.context.verified_facts)

(* A validated text with a sentence that has a trap and an employer. *)
C27_Witness ==
    /\ Validated
    /\ \E s \in SentencesOf(fin.text) :
          /\ Mentions(s, HALLUCINATION_TRAP_PATTERNS)
          /\ Mentions(s, knowledge_graph.employers)
          /\ s \in Range(fout.validation.context.blocked_claims)

AllAccepted(text) == \A s \in SentencesOf(text) : validate_claim(s).valid

(* The text up to and including its last terminal punctuation mark. *)
TerminatedPart(text) ==
    LET marks == { i \in 1..Len(text) : text[i] \in Punct }
    IN  IF marks = {} THEN <<>>
        ELSE SubSeq(text, 1, CHOOSE i \in marks : \A j \in marks : j <= i)

(* C28: for a text whose sentences are all accepted, validate_response     *)
(* returns the text up to its last terminal punctuation mark with the      *)
(* outer whitespace removed, interior spacing kept, and adds one audit     *)
(* entry, GOVERNANCE LAYER with status PASS.                               *)
C28_AcceptedTextUnchanged ==
    (Validated /\ AllAccepted(fin.text)) =>
        /\ fout.validation.validated_response = strip(TerminatedPart(fin.text))
        /\ Len(fout.validation.context.audit_log) = 1
        /\ fout.validation.context.audit_log[1].action = "GOVERNANCE LAYER"
        /\ fout.validation.context.audit_log[1].status = "PASS"

(* An accepted text of two sentences with a space between them, and one of *)
(* a sentence followed by an unterminated fragment.                        *)
C28_Witness ==
    /\ Validated
    /\ AllAccepted(fin.text)
    /\ \/ fin.text = <<".", " ", "EMP", ".">>
       \/ fin.text = <<" ", "word", ".", "word">>
    /\ fout.validation.validated_response # <<>>

CategoryDetails(entry) ==
    IF entry.action = "INTENT IDENTIFIED"
    THEN entry.details \in { <<"Category:", c>> : c \in QueryType }
    ELSE IF entry.action = "POLICY ENFORCEMENT" /\ Len(entry.details) = 2
    THEN entry.details[2] \in restricted_types
    ELSE TRUE

(* C29: in every turn, whatever the classifier call gave, the category of  *)
(* the query is a member of QueryType, the policy decision for it is PASS, *)
(* WARN or BLOCK, every audit entry has a status of ComplianceStatus, and  *)
(* the category written into an audit entry or event is a member of        *)
(* QueryType.                                                              *)
C29_ClosedCategories ==
    \A t \in Turns :
        /\ gctx[t].query_type \in QueryType
        /\ PolicyDecision(t) \in {"PASS", "WARN", "BLOCK"}
        /\ compliance_result(gctx[t].audit_log) \in {"PASS", "WARN", "BLOCK"}
        /\ \A i \in 1..Len(gctx[t].audit_log) :
              /\ gctx[t].audit_log[i].status \in ComplianceStatus
              /\ CategoryDetails(gctx[t].audit_log[i])
        /\ \A i \in 1..Len(events[t]) :
              events[t][i].type = "audit" =>
                 /\ events[t][i].data.status \in ComplianceStatus
                 /\ CategoryDetails(events[t][i].data)

(* A finished turn whose classifier text named no category, and one whose  *)
(* classifier call failed; each has its category entry in the trail.       *)
C29_Witness ==
    \E t \in Turns :
        /\ pc[t] = "done"
        /\ llm_result[t] \in { [kind |-> "text", names |-> {}],
                               [kind |-> "raise", names |-> {}] }
        /\ gctx[t].query_type = "RESUME_DEEP_DIVE"
        /\ \E i \in 1..Len(events[t]) :
              /\ events[t][i].type = "audit"
              /\ events[t][i].data.details = <<"Category:", "RESUME_DEEP_DIVE">>

PermittedTypes ==
    QueryType \ (restricted_types \cup {"SECURITY_PROBE", "UNETHICAL_REQUEST"})

(* The turn before "t2" ended in a policy BLOCK or in the trap alert, and  *)
(* "t2" has started.                                                       *)
AfterBlockedTurn ==
    /\ pc["t1"] = "done"
    /\ outcome["t1"] \in {"block", "trap"}
    /\ pc["t2"] # "idle"

AcceptanceRule(s) ==
    \/ Mentions(s, knowledge_graph.employers)
    \/ Mentions(s, knowledge_graph.projects)
    \/ ~Mentions(s, assertion_patterns)
    \/ Mentions(s, assertion_patterns) /\ Mentions(s, knowledge_graph.skills)

(* C31: a sentence without a trap is accepted exactly when it names an     *)
(* employer or a project, or has no assertion pattern, or has an assertion *)
(* pattern and a skill; it is then a verified fact, and otherwise a        *)
(* blocked claim.                                                          *)
C31_AcceptanceRule ==
    Validated =>
        \A s \in SentencesOf(fin.text) :
            ~Mentions(s, HALLUCINATION_TRAP_PATTERNS) =>
                /\ validate_claim(s).valid = AcceptanceRule(s)
                /\ (s \in Range(fout.validation.context.verified_facts))
                      = AcceptanceRule(s)
                /\ (s \in Range(fout.validation.context.blocked_claims))
                      = ~AcceptanceRule(s)

(* A validated text with an accepted assertion that names a skill. *)
C31_Witness ==
    /\ Validated
    /\ \E s \in SentencesOf(fin.text) :
          /\ Mentions(s, assertion_patterns)
          /\ Mentions(s, knowledge_graph.skills)
          /\ ~Mentions(s, knowledge_graph.employers \cup knowledge_graph.projects)
          /\ s \in Range(fout.validation.context.verified_facts)

Accepted(s) == ~Mentions(s, HALLUCINATION_TRAP_PATTERNS) /\ AcceptanceRule(s)

Rejected(s) == ~Accepted(s)

AcceptedPart(sentence) == Accepted(strip(sentence))

(* The complete sentences of a text, each with its delimiter, stripped. *)
CompleteSentences(text) ==
    [i \in 1..Len(split_sentences(text)) |-> strip(split_sentences(text)[i])]

(* The accepted sentences of a text joined as they stand in it, trimmed. *)
VerifiedText(text) == strip(Concat(SelectSeq(split_sentences(text), AcceptedPart)))

(* C32: after validation of the text of a turn, the verified list is the   *)
(* accepted complete sentences in their order and the blocked list the     *)
(* rejected ones in their order, so every sentence is in exactly one list; *)
(* the validated text is the accepted sentences joined in that order; and  *)
(* the response event of the turn counts the two lists.                    *)
C32_SentencePartition ==
    \A t \in Turns :
        valRuns[t] > 0 =>
            /\ gctx[t].verified_facts =
                  SelectSeq(CompleteSentences(full_response[t]), Accepted)
            /\ gctx[t].blocked_claims =
                  SelectSeq(CompleteSentences(full_response[t]), Rejected)
            /\ Len(gctx[t].verified_facts) + Len(gctx[t].blocked_claims)
                  = Len(CompleteSentences(full_response[t]))
            /\ \A i \in Responses(t) :
                  events[t][i].data.blocked = FALSE =>
                     /\ events[t][i].data.facts_verified = Len(gctx[t].verified_facts)
                     /\ events[t][i].data.claims_filtered = Len(gctx[t].blocked_claims)
                     /\ VerifiedText(full_response[t]) # <<>> =>
                           events[t][i].data.content = VerifiedText(full_response[t])

(* A finished turn whose text had an accepted sentence, a rejected one and *)
(* a second accepted one.                                                  *)
C32_Witness ==
    \E t \in Turns :
        /\ pc[t] = "done"
        /\ gctx[t].verified_facts = << <<"EMP", ".">>, <<"PROJ", "?">> >>
        /\ gctx[t].blocked_claims = << <<"ASSERT", ".">> >>
        /\ EndsWithResponse(t)
        /\ Last(events[t]).data.content = <<"EMP", ".", " ", "PROJ", "?">>
        /\ Last(events[t]).data.facts_verified = 2
        /\ Last(events[t]).data.claims_filtered = 1

Classified == fin.op = "classify_query" /\ fout.done

(* C33: a query with a jailbreak or credential-probe pattern is            *)
(* categorised SECURITY_PROBE and BLOCKed at every count, also when it has *)
(* a code-execution pattern; a query with a code-execution pattern alone   *)
(* is CODE_EXECUTION_ATTEMPT; neither depends on the count or on what the  *)
(* classifier call would give.                                             *)
C33_ProbeBeforeCodeExecution ==
    Classified =>
        /\ (fin.query \cap {"jailbreak", "credential"} # {}) =>
              /\ fout.category = "SECURITY_PROBE"
              /\ fout.policy.status = "BLOCK"
        /\ ("codeexec" \in fin.query /\ fin.query \cap {"jailbreak", "credential"} = {}) =>
              fout.category = "CODE_EXECUTION_ATTEMPT"

(* A query with a credential probe and a code-execution pattern, at a      *)
(* count above zero.                                                       *)
C33_Witness ==
    /\ Classified
    /\ fin.query = {"credential", "codeexec"}
    /\ fin.count = 2
    /\ fout.category = "SECURITY_PROBE"
    /\ fout.policy.status = "BLOCK"

(* The response events of lines 440-450, which carry the two flags. *)
FinalResponses(t) ==
    { i \in Responses(t) : "session_terminated" \in DOMAIN events[t][i].data }

(* C34: in the response event that ends a turn, session_terminated is true *)
(* only when the query was a structured submission whose capture           *)
(* returned, and contact_requested is false in every structured           *)
(* submission turn.                                                        *)
C34_TerminationFlags ==
    \A t \in Turns : \A i \in FinalResponses(t) :
        /\ events[t][i].data.session_terminated =>
              /\ "submission" \in gctx[t].query
              /\ side_effects[t].capture = "ok"
        /\ "submission" \in gctx[t].query =>
              ~events[t][i].data.contact_requested

(* A submission turn whose capture raised: the apology names the contact   *)
(* phrase, and the response has neither flag.                              *)
C34_Witness ==
    \E t \in Turns :
        /\ pc[t] = "done"
        /\ "submission" \in gctx[t].query
        /\ side_effects[t].capture = "raise"
        /\ EndsWithResponse(t)
        /\ Mentions(Last(events[t]).data.content, contact_phrases)
        /\ ~Last(events[t]).data.contact_requested
        /\ ~Last(events[t]).data.session_terminated

QueryCalled == fin.op = "query"

(* Without an id the call runs its turn on a session it has created. *)
QueryWithoutIdCreates ==
    (QueryCalled /\ fin.session_id = None) =>
        /\ tsid["t1"] \in DOMAIN sessions
        /\ outcome["t1"] # "AttributeError"
        /\ gctx["t1"].violation_count = 0

(* C35: a call of query with the id of an existing session runs the turn   *)
(* on that session, starting from its violation count, and a call with no  *)
(* id runs it on a new session.                                            *)
C35_QueryUsesSession ==
    /\ QueryWithoutIdCreates
    /\ (QueryCalled /\ fin.session_id \in DOMAIN sessions) =>
          /\ outcome["t1"] # "AttributeError"
          /\ tsid["t1"] = fin.session_id
          /\ gctx["t1"].session_id = fin.session_id

(* The step in which turn t adds its strike for a WARN or a BLOCK. *)
StrikeStep(t) == outcome[t] = "none" /\ outcome'[t] \in {"warn", "block"}

RestrictedAfterVetting ==
    /\ pc["t1"] = "done"
    /\ outcome["t1"] = "ok"
    /\ gctx["t1"].query_type \in vetting_types
    /\ gctx["t1"].violation_count = 1
    /\ Decided("t2")
    /\ gctx["t2"].query_type \in restricted_types

PiiEntries(t) ==
    { i \in 1..Len(gctx[t].audit_log) : gctx[t].audit_log[i].action = "PII SCAN" }

PermittedWithPii(t) ==
    /\ Decided(t)
    /\ "pii" \in gctx[t].query
    /\ gctx[t].query_type \in PermittedTypes

RoundTripped == fin.op = "round_trip" /\ fout.done

(* C39: the session made by from_dict from the document that save_session *)
(* stored for to_dict's snapshot has the id, creation time, violation      *)
(* count, domain context and reasoning steps of the session saved.         *)
C39_SnapshotRoundTrip ==
    RoundTripped =>
        /\ fout.document # NoDocument
        /\ fout.document.session_id = fin.session_id
        /\ fout.loaded.created_at = fin.session.created_at
        /\ fout.loaded.violation_count = fin.session.violation_count
        /\ fout.loaded.context_domain = fin.session.context_domain
        /\ fout.loaded.thought_chain = fin.session.thought_chain

(* A session with strikes, a domain and two reasoning steps made at        *)
(* different times has been saved and loaded.                              *)
C39_Witness ==
    /\ RoundTripped
    /\ fin.session.violation_count = 2
    /\ fin.session.context_domain = "FinTech"
    /\ Len(fin.session.thought_chain) = 2
    /\ fin.session.thought_chain[1].timestamp # fin.session.thought_chain[2].timestamp
    /\ fout.loaded = fin.session

====
